---- MODULE Spec2Model ----
(***************************************************************************)
(* Zoom transcript pipeline: webhook endpoint, background pipeline run     *)
(* (handleTranscriptCompleted), transcripts store with its unique index,   *)
(* Slack interactive delete endpoint and the read-only view endpoint.      *)
(***************************************************************************)
EXTENDS Naturals, Integers, Sequences, FiniteSets, TLC

\* ------------------------------------------------------------------ bounds
MaxRuns == 2            \* pipeline runs (webhook deliveries that start a run)
MaxInteractive == 2     \* interactive (delete button) requests

Runs == 1..MaxRuns
Inters == 1..MaxInteractive

\* natural keys (zoom_meeting_id, zoom_meeting_uuid, recording_start, recording_end)
Keys == {<<"m1", "u1", "t0", "t1">>, <<"m1", "u1", "t2", "t3">>}

\* ------------------------------------------------------- program constants
maxRetries == 3                 \* downloadTranscriptWithRetry
maxAttempts == 3                \* generateSummaryWithRelevance / generateComprehensiveAnalysis
UniqueViolation == "23505"      \* Postgres unique_violation, insertError.code
OtherStoreError == "other"      \* any store error code other than 23505
NoError == "null"
ReplayWindow == 300             \* seconds: 60 * 5 in verifySlackRequest
SigHexLen == 64                 \* hex digits of a SHA-256 digest
retryDelayMs == 750             \* generateSummaryWithRelevance: sleep between attempts
minTranscriptChars == 50        \* generateComprehensiveAnalysis: shortest transcript analysed alone

VARIABLES
    transcripts,    \* rows of the transcripts table
    nextId,         \* the table's id sequence
    runs,           \* handleTranscriptCompleted invocations
    slackMsgs,      \* messages delivered through the Slack client
    zoomAPI,        \* the process's ZoomAPI object: credentials and cached token
    insertCount,    \* per natural key: successful inserts so far
    deleteCount,    \* per natural key: rows removed so far
    webhook,        \* last exchange of the webhook endpoint
    inter,          \* interactive endpoint requests
    view,           \* last exchange of the view endpoint
    pure            \* last call of a helper function: its input and result

vars == <<transcripts, nextId, runs, slackMsgs, zoomAPI, insertCount,
          deleteCount, webhook, inter, view, pure>>

None == "none"

\* No helper function has been called yet.
NoCall == [fn |-> "none"]

\* ------------------------------------------------------------- the store
\* Rows with the natural key k (the .eq(...) chain of the duplicate query).
RowsWithKey(store, k) == {t \in store : t.key = k}

\* Rows with id i (.eq('id', i)).
RowsWithId(store, i) == {t \in store : t.id = i}

\* A store without transcripts_unique_recording_idx: every insert is accepted.
StoreInsert_NoIndex(store, row) ==
    [error |-> NoError, store |-> store \cup {row}]

\* An upsert: a row whose natural key is present replaces the stored one.
StoreInsert_Upsert(store, row) ==
    [error |-> NoError, store |-> (store \ RowsWithKey(store, row.key)) \cup {row}]

\* insert(...) against the table carrying transcripts_unique_recording_idx:
\* a row whose natural key is present is refused with 23505.
StoreInsert(store, row) ==
    IF RowsWithKey(store, row.key) # {}
    THEN [error |-> UniqueViolation, store |-> store]
    ELSE [error |-> NoError, store |-> store \cup {row}]

\* ------------------------------------------------- downloadTranscriptWithRetry
\* Texts (a header value, a body) are sequences of pieces; includes and
\* toLowerCase work piece by piece.
includes(text, piece) == \E i \in DOMAIN text : text[i] = piece

LowerPiece(piece) ==
    CASE piece \in {"<!DOCTYPE html>", "<!DocType HTML>"} -> "<!doctype html>"
      [] piece = "Text/HTML" -> "text/html"
      [] piece = "WEBVTT" -> "webvtt"
      [] piece \in {"Clarity Copilot Test", "CLARITY COPILOT TEST"} -> "clarity copilot test"
      [] piece = "Clarity System Test" -> "clarity system test"
      [] piece = "SYSTEM TEST CLARITY" -> "system test clarity"
      [] piece = "Testing Clarity System" -> "testing clarity system"
      [] piece = "Clarity Test" -> "clarity test"
      [] piece = "<HTML>" -> "<html>"
      [] OTHER -> piece

toLowerCase(text) == [i \in DOMAIN text |-> LowerPiece(text[i])]

\* The answer of one fetch: a thrown exception, or a response with its ok
\* flag, its content-type header (null when absent) and its body.
FetchResponse(threw, ok, typeNull, type, text) ==
    [threw |-> threw, ok |-> ok, contentType |-> [null |-> typeNull, value |-> type],
     text |-> text]

VttBody == <<"WEBVTT", "Alice: hello">>

\* What one fetch of the transcript URL can give: a transcript, an error
\* status, an HTML content-type, an HTML page served as 200, an exception.
DownloadResps ==
    {FetchResponse(FALSE, TRUE, FALSE, <<"text/vtt">>, VttBody),
     FetchResponse(FALSE, FALSE, FALSE, <<"text/vtt">>, <<"Forbidden">>),
     FetchResponse(FALSE, TRUE, FALSE, <<"text/html", "; charset=utf-8">>, VttBody),
     FetchResponse(FALSE, TRUE, FALSE, <<"text/vtt">>, <<"<!DOCTYPE html>", "Sign in">>),
     FetchResponse(TRUE, FALSE, TRUE, <<>>, <<>>)}

\* An attempt that accepts every response with a success status.
AttemptOk_StatusOnly(resp) == ~resp.threw /\ resp.ok

\* An attempt succeeds iff fetch does not throw, response.ok holds, the
\* content-type does not include 'text/html' and the lower-cased body does
\* not include '<!doctype html>'.
AttemptOk(resp) ==
    /\ ~resp.threw
    /\ resp.ok
    /\ ~(\/ (~resp.contentType.null /\ includes(resp.contentType.value, "text/html"))
         \/ includes(toLowerCase(resp.text), "<!doctype html>"))

AttemptError(resp) ==
    CASE resp.threw -> "fetch threw"
      [] ~resp.ok -> "Failed to download transcript"
      [] OTHER -> "Invalid transcript response format"

Pow2(n) == 2 ^ n

\* A loop that waits after every failed attempt, the last included.
WaitsBeforeRetry_Always(attempt) == TRUE

\* if (attempt < maxRetries - 1) { await delay(...) }
WaitsBeforeRetry(attempt) == attempt < maxRetries - 1

\* The for-loop of downloadTranscriptWithRetry, attempt counted from 0.
RECURSIVE DownloadLoop(_, _, _, _)
DownloadLoop(resps, attempt, waits, lastError) ==
    IF attempt >= maxRetries
    THEN [ok |-> FALSE, attempts |-> attempt, waits |-> waits, error |-> lastError,
          text |-> <<>>]
    ELSE IF AttemptOk(resps[attempt + 1])
    THEN [ok |-> TRUE, attempts |-> attempt + 1, waits |-> waits, error |-> None,
          text |-> resps[attempt + 1].text]
    ELSE DownloadLoop(resps, attempt + 1,
                      IF WaitsBeforeRetry(attempt)
                      THEN Append(waits, Pow2(attempt) * 1000) ELSE waits,
                      AttemptError(resps[attempt + 1]))

\* A download that goes to the URL whether or not a token was given.
downloadTranscriptWithRetry_TokenOptional(downloadToken, resps) ==
    DownloadLoop(resps, 0, <<>>, None)

downloadTranscriptWithRetry(downloadToken, resps) ==
    IF ~downloadToken
    THEN [ok |-> FALSE, attempts |-> 0, waits |-> <<>>,
          error |-> "No download token provided in webhook", text |-> <<>>]
    ELSE DownloadLoop(resps, 0, <<>>, None)

\* ------------------------------------------------ generateSummaryWithRelevance
\* A transcript: its text as a sequence of pieces, and its length in
\* characters.
Transcript(pieces, length) == [pieces |-> pieces, length |-> length]

\* Cleaned transcripts the pipeline meets: an ordinary one, one that holds a
\* trigger phrase, and one shorter than 50 characters without a trigger phrase.
TxKinds ==
    {Transcript(<<"Alice: ", "the quarterly roadmap">>, 400),
     Transcript(<<"Alice: ", "Clarity Copilot Test">>, 27),
     Transcript(<<"Bob: ", "hi">>, 7)}

testPhrases ==
    {"clarity system test", "clarity copilot test", "system test clarity",
     "testing clarity system"}

\* A phrase check that compares the text as it is written.
isTestMeeting_CaseSensitive(tx) ==
    \E phrase \in testPhrases : includes(tx.pieces, phrase)

\* testPhrases.some(phrase => transcript.toLowerCase().includes(phrase))
isTestMeeting(tx) ==
    \E phrase \in testPhrases : includes(toLowerCase(tx.pieces), phrase)

\* What one generateObject call can give for the summary schema.
SummaryResps == {"fail", "relevant", "relevant_empty", "irrelevant"}

SummaryOf(resp) ==
    CASE resp = "relevant" -> [summary |-> "llm", isRelevant |-> TRUE]
      [] resp = "relevant_empty" -> [summary |-> "", isRelevant |-> TRUE]
      [] OTHER -> [summary |-> "", isRelevant |-> FALSE]

\* Answers of generateObject that are exceptions: a failed request, or an
\* object that does not fit the schema.
ModelFailures == {"fail", "fail_schema"}

\* A loop that gives up one attempt early.
LastAttempt_OffByOne(attempt) == attempt = maxAttempts - 1

\* if (attempt === maxAttempts) throw error;
LastAttempt(attempt) == attempt = maxAttempts

\* The retry loop, attempt counted from 1; waits are the sleeps made so far.
RECURSIVE SummaryLoop(_, _, _)
SummaryLoop(resps, attempt, waits) ==
    IF resps[attempt] \notin ModelFailures
    THEN [threw |-> FALSE, calls |-> attempt, waits |-> waits, error |-> None]
         @@ SummaryOf(resps[attempt])
    ELSE IF LastAttempt(attempt)
    THEN [threw |-> TRUE, calls |-> attempt, waits |-> waits,
          error |-> resps[attempt], summary |-> "", isRelevant |-> FALSE]
    ELSE SummaryLoop(resps, attempt + 1, Append(waits, retryDelayMs))

generateSummaryWithRelevance(tx, resps) ==
    IF isTestMeeting(tx)
    THEN [threw |-> FALSE, calls |-> 0, waits |-> <<>>, error |-> None,
          summary |-> "canned", isRelevant |-> TRUE]
    ELSE SummaryLoop(resps, 1, <<>>)

\* ------------------------------------------------ generateComprehensiveAnalysis
AnalysisResps == {"fail", "object"}

\* What the function gives: the object's fields, or the error thrown.
Analysis(threw, calls, meetingType, externals, projects, clients, error) ==
    [threw |-> threw, calls |-> calls, meetingType |-> meetingType,
     identifiedExternalParticipants |-> externals, projects |-> projects,
     clients |-> clients, error |-> error]

\* The retry loop, attempt counted from 1.
RECURSIVE AnalysisLoop(_, _)
AnalysisLoop(resps, attempt) ==
    IF resps[attempt] \notin ModelFailures
    THEN Analysis(FALSE, attempt, "model", <<"model">>, <<"model">>, <<"model">>, None)
    ELSE IF attempt = maxAttempts
    THEN Analysis(TRUE, attempt, None, <<>>, <<>>, <<>>, resps[attempt])
    ELSE AnalysisLoop(resps, attempt + 1)

\* A pre-check that looks at the transcript only.
AlmostNoContent_TranscriptOnly(summary, tx) == tx.length < minTranscriptChars

\* !summary && (!cleanedTranscript || cleanedTranscript.length < 50)
AlmostNoContent(summary, tx) ==
    summary = "" /\ (tx.length = 0 \/ tx.length < minTranscriptChars)

generateComprehensiveAnalysis(summary, tx, resps) ==
    IF isTestMeeting(tx)
    THEN Analysis(FALSE, 0, "internal", <<>>,
                  <<"Clarity Copilot", "AI-Powered Transcript Processing">>, <<>>, None)
    ELSE IF AlmostNoContent(summary, tx)
    THEN Analysis(FALSE, 0, "unknown", <<>>, <<>>, <<>>, None)
    ELSE AnalysisLoop(resps, 1)

\* ------------------------------------------------------ pipeline run state
K1 == <<"m1", "u1", "t0", "t1">>
K2 == <<"m1", "u1", "t2", "t3">>

\* A webhook request: the parsed envelope, its signature headers and the
\* configuration of the process that serves it.
BaseReq == [json |-> TRUE, status |-> "ok",
            event |-> "recording.transcript_completed", hasPayload |-> TRUE,
            plainToken |-> FALSE, files |-> "transcript", key |-> K1,
            token |-> TRUE, sig |-> "valid", secretSet |-> TRUE]

Pending == [status |-> 0, body |-> "pending"]

FreeRun == [pc |-> "free", req |-> BaseReq, ack |-> Pending, tx |-> None,
            summary |-> None, emails |-> None, rid |-> 0, did |-> {},
            out |-> None]

\* crypto.randomUUID(): a fresh value per call; every run makes one call.
randomUUID(r) == <<"uuid", r>>

TopicOf(k) == k[1]

Ended(p) == p \in {"returned", "threw"}

\* What a caller that awaits handleTranscriptCompleted answers once it ends.
AwaitedResponse(p) ==
    IF p = "threw" THEN [status |-> 500, body |-> "Internal server error"]
    ELSE [status |-> 200, body |-> "success"]

\* The run r moves to pc p with outcome o, having performed the effects e
\* ("found": the duplicate query returned a row).
\* The response to the delivery is touched only if it was left pending.
\* The locals of a run that has ended are gone.
Moved(r, p, o, e) ==
    [runs EXCEPT ![r].pc = p, ![r].out = o, ![r].did = @ \cup e,
                 ![r].tx = IF Ended(p) THEN None ELSE @,
                 ![r].summary = IF Ended(p) THEN None ELSE @,
                 ![r].emails = IF Ended(p) THEN None ELSE @,
                 ![r].ack = IF @ = Pending /\ Ended(p) THEN AwaitedResponse(p) ELSE @]

\* -------------------------------------------- handleTranscriptCompleted steps
\* A duplicate check that never reports a duplicate.
PreCheckFound_Never(store, k, queryError) == FALSE

\* existingTranscripts && existingTranscripts.length > 0; on a query error
\* data is null and the run continues.
PreCheckFound(store, k, queryError) ==
    ~queryError /\ RowsWithKey(store, k) # {}

\* The duplicate query returns; a duplicate ends the run.
PreCheck(r) ==
    /\ runs[r].pc = "precheck"
    /\ \E queryError \in BOOLEAN :
         LET e == {"query"} \cup
                  (IF ~queryError /\ RowsWithKey(transcripts, runs[r].req.key) # {}
                   THEN {"found"} ELSE {})
         IN
         runs' = IF PreCheckFound(transcripts, runs[r].req.key, queryError)
                 THEN Moved(r, "returned", "duplicate", e)
                 ELSE Moved(r, "download", None, e)
    /\ UNCHANGED <<transcripts, nextId, slackMsgs, zoomAPI, insertCount,
                   deleteCount, webhook, inter, view, pure>>

\* Every result downloadTranscriptWithRetry can give, over all sequences of
\* fetch answers.
DownloadResultsWithToken ==
    {downloadTranscriptWithRetry(TRUE, resps) : resps \in [1..maxRetries -> DownloadResps]}

DownloadResults(downloadToken) ==
    IF downloadToken THEN DownloadResultsWithToken
    ELSE {downloadTranscriptWithRetry(FALSE, resps) : resps \in [1..maxRetries -> DownloadResps]}

\* Every result of the two model-calling helpers, over all sequences of
\* generateObject answers.
SummaryResults(tx) ==
    {generateSummaryWithRelevance(tx, resps) : resps \in [1..maxAttempts -> SummaryResps]}

AnalysisResults(summary, tx) ==
    {generateComprehensiveAnalysis(summary, tx, resps) :
        resps \in [1..maxAttempts -> AnalysisResps]}

\* A relevance branch that lets every transcript through.
SkipIrrelevant_Never(isRelevant) == FALSE

\* if (!isRelevant) return;
SkipIrrelevant(isRelevant) == ~isRelevant

\* A pipeline that logs a failed step and carries on.
OnStepFailure_Continue(step) == [pc |-> "zoom", out |-> None]

\* An error thrown by a step reaches the catch of handleTranscriptCompleted,
\* which logs and rethrows it.
OnStepFailure(step) == [pc |-> "threw", out |-> step]

\* Where the run stands after the download, the cleaning, the summary with its
\* relevance branch and the metadata extraction, for a download result d, a
\* transcript tx, a summary result s and an analysis result a.
\* No store or chat call lies between these steps.
Processed(d, tx, s, a) ==
    LET model(n) == IF n > 0 THEN {"model"} ELSE {}
        download == IF d.attempts = 0 THEN "no_token" ELSE "download"
    IN
    IF ~d.ok
    THEN [pc |-> OnStepFailure(download).pc, out |-> OnStepFailure(download).out,
          did |-> (IF d.attempts = 0 THEN {} ELSE {"download"}) \cup {"failed"},
          summary |-> None]
    ELSE IF s.threw
    THEN [pc |-> OnStepFailure("summary").pc, out |-> OnStepFailure("summary").out,
          did |-> {"download", "failed"} \cup model(s.calls), summary |-> None]
    ELSE IF SkipIrrelevant(s.isRelevant)
    THEN [pc |-> "returned", out |-> "irrelevant",
          did |-> {"download"} \cup model(s.calls) \cup
                  (IF s.isRelevant THEN {} ELSE {"irrelevant"}),
          summary |-> None]
    ELSE IF a.threw
    THEN [pc |-> OnStepFailure("analysis").pc, out |-> OnStepFailure("analysis").out,
          did |-> {"download", "failed"} \cup model(s.calls + a.calls) \cup
                  (IF s.isRelevant THEN {} ELSE {"irrelevant"}),
          summary |-> None]
    ELSE [pc |-> "zoom", out |-> None,
          did |-> {"download"} \cup model(s.calls + a.calls) \cup
                  (IF s.isRelevant THEN {} ELSE {"irrelevant"}),
          summary |-> s.summary]

\* Every way the stretch can end, over all answers of the download URL and
\* of the model.
ProcessOutcomes(downloadToken) ==
    {Processed(x[1], x[2], x[3], x[4]) :
        x \in UNION {UNION {UNION {{<<d, tx, s, a>> : a \in AnalysisResults(s.summary, tx)} :
                                        s \in SummaryResults(tx)} :
                                tx \in TxKinds} :
                        d \in DownloadResults(downloadToken)}}

OutcomesWithToken == ProcessOutcomes(TRUE)

OutcomesWithoutToken == ProcessOutcomes(FALSE)

\* downloadTranscriptWithRetry, cleanVTTTranscript, generateSummaryWithRelevance,
\* the relevance branch, extractParticipantsFromCleanedText and
\* generateComprehensiveAnalysis.
Process(r) ==
    /\ runs[r].pc = "download"
    /\ \E p \in (IF runs[r].req.token THEN OutcomesWithToken ELSE OutcomesWithoutToken) :
         runs' = [Moved(r, p.pc, p.out, p.did) EXCEPT ![r].summary = p.summary]
    /\ UNCHANGED <<transcripts, nextId, slackMsgs, zoomAPI, insertCount,
                   deleteCount, webhook, inter, view, pure>>

\* A method without the catch: the error reaches the caller.
ZoomFailure_Rethrown(request) == [threw |-> TRUE, emails |-> "empty"]

\* catch (error) { ...; return []; } around the whole method body
ZoomFailure(request) == [threw |-> FALSE, emails |-> "empty"]

\* ZoomAPI.getPastMeetingParticipants. tokenResp is the answer of the OAuth
\* endpoint, partResp that of the participants endpoint ("error": another
\* status than 404 and 429, or an exception of fetch). calls counts the
\* requests sent.
getPastMeetingParticipants(api, tokenResp, partResp) ==
    IF ~api.configured
    THEN [threw |-> FALSE, emails |-> "empty", api |-> api, calls |-> 0]
    ELSE IF api.accessToken = None /\ tokenResp # "ok"
    THEN ZoomFailure("token") @@ [api |-> api, calls |-> 1]
    ELSE LET got == [api |-> [api EXCEPT !.accessToken = "token"],
                     calls |-> IF api.accessToken = None THEN 2 ELSE 1]
         IN CASE partResp = "emails" -> [threw |-> FALSE, emails |-> "some"] @@ got
              [] partResp \in {"none", "404", "429"} ->
                    [threw |-> FALSE, emails |-> "empty"] @@ got
              [] OTHER -> ZoomFailure("participants") @@ got

Zoom(r) ==
    /\ runs[r].pc = "zoom"
    /\ \E tokenResp \in {"ok", "fail"},
          partResp \in {"emails", "none", "404", "429", "error"} :
         LET res == getPastMeetingParticipants(zoomAPI, tokenResp, partResp) IN
         /\ runs' = IF res.threw
                    THEN Moved(r, OnStepFailure("zoom").pc, OnStepFailure("zoom").out,
                               {"zoom", "failed"})
                    ELSE [Moved(r, "insert", None,
                                IF res.calls > 0 THEN {"zoom"} ELSE {})
                             EXCEPT ![r].emails = res.emails]
         /\ zoomAPI' = res.api
    /\ UNCHANGED <<transcripts, nextId, slackMsgs, insertCount, deleteCount,
                   webhook, inter, view, pure>>

\* An insert-error branch that raises on a uniqueness violation.
OnInsertError_Throws(code) ==
    IF code = UniqueViolation
    THEN [pc |-> "threw", out |-> "dup_conflict"]
    ELSE [pc |-> "returned", out |-> "insert_error"]

\* An insert-error branch that starts the run over on a refused insert.
OnInsertError_StartOver(code) ==
    [pc |-> "precheck", out |-> None]

\* An insert-error branch that goes on to the notification.
OnInsertError_Continue(code) ==
    [pc |-> "notify", out |-> None]

\* if (insertError) { if (code === '23505') return; return; }
OnInsertError(code) ==
    IF code = UniqueViolation
    THEN [pc |-> "returned", out |-> "dup_conflict"]
    ELSE [pc |-> "returned", out |-> "insert_error"]

\* The row assembled as transcriptData, with the id the sequence gives it.
TranscriptData(r) ==
    [id |-> nextId, key |-> runs[r].req.key, view_secret |-> randomUUID(r),
     topic |-> TopicOf(runs[r].req.key), summary |-> runs[r].summary,
     emails |-> runs[r].emails]

\* insert(transcriptData).select('id').single() and the branches on its result.
\* fault: the store fails for another reason, or answers without data.
Insert(r) ==
    /\ runs[r].pc = "insert"
    /\ \E fault \in {"none", "error", "no_data"} :
         LET res == IF fault = "error"
                    THEN [error |-> OtherStoreError, store |-> transcripts]
                    ELSE StoreInsert(transcripts, TranscriptData(r))
             k == runs[r].req.key
         IN
         /\ transcripts' = res.store
         /\ IF res.error # NoError
            THEN /\ runs' = Moved(r, OnInsertError(res.error).pc,
                                  OnInsertError(res.error).out, {"insert_failed"})
                 /\ UNCHANGED <<nextId, insertCount>>
            ELSE /\ nextId' = nextId + 1
                 /\ insertCount' = [insertCount EXCEPT ![k] = @ + 1]
                 /\ runs' = IF fault = "no_data"
                            THEN Moved(r, "returned", "no_id", {"insert"})
                            ELSE [Moved(r, "notify", None, {"insert"})
                                     EXCEPT ![r].rid = nextId,
                                            ![r].summary = None,
                                            ![r].emails = None]
    /\ UNCHANGED <<slackMsgs, zoomAPI, deleteCount, webhook, inter, view, pure>>

\* value: transcriptId.toString()
DeleteControlValue(transcriptId) == transcriptId

\* A link built with a secret generated anew instead of the stored one.
ViewSummaryLink_NewSecret(r) == <<runs[r].rid, randomUUID(0)>>

\* `${appUrl}/api/view-summary?id=${transcriptId}&secret=${viewSecret}`
ViewSummaryLink(r) == <<runs[r].rid, randomUUID(r)>>

\* The direct message: delete button and view link.
SummaryMessage(r) ==
    [kind |-> "summary", src |-> <<"run", r>>,
     value |-> DeleteControlValue(runs[r].rid),
     link |-> ViewSummaryLink(r)]

\* A notification step whose failures are raised to the caller.
OnNotifyFailure_Throws(lookup) ==
    [pc |-> "threw", out |-> IF lookup = "no_user" THEN "no_slack_user" ELSE "notify_error"]

\* The else branch (no Slack user for the host email) and the catch around
\* the notification: the failure is logged and the function returns.
OnNotifyFailure(lookup) ==
    [pc |-> "returned", out |-> IF lookup = "no_user" THEN "no_slack_user" ELSE "notify_error"]

\* slack.users.lookupByEmail, then slack.chat.postMessage with the summary,
\* the link and the button; every failure is caught and logged.
Notify(r) ==
    /\ runs[r].pc = "notify"
    /\ \E lookup \in {"user", "no_user", "throws"}, post \in {"ok", "throws"} :
         IF lookup = "user" /\ post = "ok"
         THEN /\ slackMsgs' = slackMsgs \cup {SummaryMessage(r)}
              /\ runs' = Moved(r, "returned", "notified", {"notify"})
         ELSE /\ UNCHANGED slackMsgs
              /\ runs' = Moved(r, OnNotifyFailure(lookup).pc,
                               OnNotifyFailure(lookup).out, {})
    /\ UNCHANGED <<transcripts, nextId, zoomAPI, insertCount, deleteCount,
                   webhook, inter, view, pure>>

RunStep(r) ==
    \/ PreCheck(r)
    \/ Process(r)
    \/ Zoom(r)
    \/ Insert(r)
    \/ Notify(r)

\* ------------------------------------------------- Slack request signatures
SlackSigningSecret == "slack-signing-secret"

\* crypto.createHmac('sha256', secret).update(msg).digest('hex'): a value
\* determined by (secret, msg), SigHexLen characters long.
HmacSha256Hex(secret, msg) == [mac |-> <<secret, msg>>, len |-> SigHexLen]

\* `v0=${hmac}` over `v0:${timestamp}:${bodyText}`
SlackSignature(secret, timestamp, body) ==
    LET h == HmacSha256Hex(secret, <<"v0", timestamp, body>>) IN
    [mac |-> h.mac, len |-> h.len + 3]

\* The x-slack-signature header a request carries.
SuppliedSignature(req) ==
    CASE req.sig = "valid" -> SlackSignature(SlackSigningSecret, req.age, req.body)
      [] req.sig = "wrong" -> SlackSignature("another-secret", req.age, req.body)
      [] req.sig = "short" -> [mac |-> <<"v0=abc", <<>>>>, len |-> 6]
      [] OTHER -> [mac |-> <<"", <<>>>>, len |-> 0]

\* crypto.timingSafeEqual(a, b): throws a RangeError when the byte lengths
\* differ, otherwise compares the contents.
timingSafeEqual(a, b) ==
    IF a.len # b.len THEN "RangeError"
    ELSE IF a = b THEN "true" ELSE "false"

\* const valid = crypto.timingSafeEqual(Buffer.from(calculated), Buffer.from(signature))
SignaturesMatch(calculated, supplied) == timingSafeEqual(calculated, supplied)

\* A verifier without the replay window.
TimestampTooOld_Never(age) == FALSE

\* parseInt(timestamp, 10) < fiveMinutesAgo, with age = now - timestamp.
TimestampTooOld(age) == age > ReplayWindow

\* verifySlackRequest: "valid", "invalid", or "RangeError" when the comparison
\* throws. req.age is the server's time minus the request timestamp (seconds).
verifySlackRequest(req) ==
    IF ~req.secretSet THEN "invalid"
    ELSE IF req.sig = "absent" \/ ~req.tsPresent THEN "invalid"
    ELSE IF TimestampTooOld(req.age) THEN "invalid"
    ELSE LET eq == SignaturesMatch(
                     SlackSignature(SlackSigningSecret, req.age, req.body),
                     SuppliedSignature(req))
         IN CASE eq = "true" -> "valid"
              [] eq = "false" -> "invalid"
              [] OTHER -> "RangeError"

\* ------------------------------------------------- interactive endpoint (POST)
BaseInteractiveReq ==
    [secretSet |-> TRUE, sig |-> "valid", tsPresent |-> TRUE, age |-> 0,
     body |-> [kind |-> "delete", id |-> 1, user |-> TRUE]]

FreeInter == [pc |-> "free", req |-> BaseInteractiveReq, status |-> 0,
              body |-> None, did |-> {}]

NoLink == <<0, randomUUID(0)>>

\* The handler answers: the request i ends with this status and body.
Answered(i, st, b, e) ==
    [inter EXCEPT ![i].pc = "answered", ![i].status = st, ![i].body = b,
                  ![i].did = @ \cup e]

\* POST up to the first store call: signature check, form and JSON parsing,
\* recognition of the delete action.
\* The result is a response, "uncaught" when an exception leaves POST, or
\* "lookup" when the handler goes on to read the record.
InteractiveEntry(req) ==
    LET v == verifySlackRequest(req) IN
    CASE v = "RangeError" -> [next |-> "uncaught", status |-> 0, body |-> "RangeError"]
      [] v = "invalid" -> [next |-> "answered", status |-> 401, body |-> "Invalid Slack signature"]
      [] req.body.kind = "no_payload" ->
            [next |-> "answered", status |-> 400, body |-> "Missing payload"]
      [] req.body.kind = "bad_json" ->
            [next |-> "answered", status |-> 500, body |-> "Internal server error"]
      [] req.body.kind = "delete_nan" ->
            [next |-> "answered", status |-> 400, body |-> "Invalid transcript ID"]
      [] req.body.kind = "delete" ->
            [next |-> "lookup", status |-> 0, body |-> None]
      [] OTHER -> [next |-> "answered", status |-> 200, body |-> "Action received but not handled"]

InteractivePOST(i, req) ==
    /\ inter[i].pc = "free"
    /\ LET e == InteractiveEntry(req) IN
       inter' = [inter EXCEPT ![i] = [pc |-> e.next, req |-> req,
                                      status |-> e.status, body |-> e.body,
                                      did |-> {}]]
    /\ UNCHANGED <<transcripts, nextId, runs, slackMsgs, zoomAPI, insertCount,
                   deleteCount, webhook, view, pure>>

\* .select(...).eq('id', id).single(): an error unless exactly one row matches;
\* data is null exactly when there is an error.
SelectSingle(store, id, fault) ==
    IF fault \/ Cardinality(RowsWithId(store, id)) # 1
    THEN [error |-> TRUE, null |-> TRUE, data |-> None]
    ELSE [error |-> FALSE, null |-> FALSE,
          data |-> CHOOSE t \in RowsWithId(store, id) : TRUE]

EphemeralMessage(i) ==
    [kind |-> "ephemeral", src |-> <<"inter", i>>, value |-> inter[i].req.body.id,
     link |-> NoLink]

ConfirmationMessage(i) ==
    [kind |-> "deleted", src |-> <<"inter", i>>, value |-> inter[i].req.body.id,
     link |-> NoLink]

\* The topic lookup; on an error the user is told and the request answered.
ILookup(i) ==
    /\ inter[i].pc = "lookup"
    /\ \E fault \in BOOLEAN, chat \in {"ok", "throws"} :
         LET res == SelectSingle(transcripts, inter[i].req.body.id, fault)
             user == inter[i].req.body.user
         IN
         IF ~res.error
         THEN /\ inter' = [inter EXCEPT ![i].pc = "delete",
                                         ![i].did = @ \cup {"store_read", "lookup_ok"}]
              /\ UNCHANGED slackMsgs
         ELSE IF ~user
         THEN /\ inter' = Answered(i, 404, "Transcript not found", {"store_read"})
              /\ UNCHANGED slackMsgs
         ELSE IF chat = "ok"
         THEN /\ inter' = Answered(i, 404, "Transcript not found", {"store_read", "chat"})
              /\ slackMsgs' = slackMsgs \cup {EphemeralMessage(i)}
         ELSE /\ inter' = Answered(i, 500, "Internal server error", {"store_read", "chat"})
              /\ UNCHANGED slackMsgs
    /\ UNCHANGED <<transcripts, nextId, runs, zoomAPI, insertCount, deleteCount,
                   webhook, view, pure>>

\* .delete().eq('id', id)
StoreDelete(store, id) == store \ RowsWithId(store, id)

\* A handler without the try around the confirmation: the error reaches the
\* outer catch.
OnConfirmationFailure_Uncaught(chat) == [status |-> 500, body |-> "Internal server error"]

\* catch (slackError) around chat.postMessage: the error is logged and the
\* handler goes on to answer 200 { ok: true }.
OnConfirmationFailure(chat) == [status |-> 200, body |-> "ok"]

\* The delete, the confirmation message and the answer.
IDelete(i) ==
    /\ inter[i].pc = "delete"
    /\ \E fault \in BOOLEAN, chat \in {"ok", "throws"} :
         LET id == inter[i].req.body.id
             user == inter[i].req.body.user
             gone == RowsWithId(transcripts, id)
         IN
         IF fault
         THEN /\ UNCHANGED <<transcripts, deleteCount>>
              /\ IF ~user
                 THEN /\ inter' = Answered(i, 500, "Failed to delete transcript", {"store_delete"})
                      /\ UNCHANGED slackMsgs
                 ELSE IF chat = "ok"
                 THEN /\ inter' = Answered(i, 500, "Failed to delete transcript",
                                           {"store_delete", "chat"})
                      /\ slackMsgs' = slackMsgs \cup {EphemeralMessage(i)}
                 ELSE /\ inter' = Answered(i, 500, "Internal server error",
                                           {"store_delete", "chat"})
                      /\ UNCHANGED slackMsgs
         ELSE /\ transcripts' = StoreDelete(transcripts, id)
              /\ deleteCount' = [k \in Keys |->
                    deleteCount[k] + Cardinality({t \in gone : t.key = k})]
              /\ inter' = LET resp == IF user /\ chat = "throws"
                                       THEN OnConfirmationFailure(chat)
                                       ELSE [status |-> 200, body |-> "ok"]
                          IN Answered(i, resp.status, resp.body,
                                      {"store_delete", "deleted"} \cup
                                      (IF user THEN {"chat"} ELSE {}))
              /\ slackMsgs' = IF user /\ chat = "ok"
                              THEN slackMsgs \cup {ConfirmationMessage(i)}
                              ELSE slackMsgs
    /\ UNCHANGED <<nextId, runs, zoomAPI, insertCount, webhook, view, pure>>

\* ----------------------------------------------------- webhook endpoint (POST)
\* A caller that leaves the response open until the run has ended.
DispatchResponse_Awaiting(req) == Pending

\* The response built before handleTranscriptCompleted is called and returned
\* right after the call is issued (fire and forget).
DispatchResponse(req) == [status |-> 200, body |-> "success"]

ZoomWebhookSecret == "zoom-secret"

PlainToken == "challenge-token"

\* A challenge answer that echoes the token instead of hashing it.
EncryptedToken_Echo(secret, plainToken) == [mac |-> <<"", plainToken>>, len |-> SigHexLen]

\* crypto.createHmac('sha256', secret).update(plainToken).digest('hex')
EncryptedToken(secret, plainToken) == HmacSha256Hex(secret, plainToken)

NoAnswer == [plainToken |-> "", encryptedToken |-> HmacSha256Hex("", "")]

\* The JSON body of the answer to the validation challenge.
ChallengeAnswer(req) ==
    IF req.json /\ req.status \notin {"-1", "500"}
       /\ req.event = "endpoint.url_validation" /\ req.plainToken /\ req.secretSet
    THEN [plainToken |-> PlainToken,
          encryptedToken |-> EncryptedToken(ZoomWebhookSecret, PlainToken)]
    ELSE NoAnswer

\* An envelope check that looks at the event name only.
EnvelopeInvalid_EventOnly(req) == req.event = ""

\* !payload.event || !payload.payload
EnvelopeInvalid(req) == req.event = "" \/ ~req.hasPayload

\* POST up to the point where it answers or hands over to the pipeline.
WebhookEntry(req) ==
    CASE ~req.json ->
            [next |-> "uncaught", status |-> 0, body |-> "SyntaxError", spawn |-> FALSE]
      [] req.status \in {"-1", "500"} ->
            [next |-> "answered", status |-> 200, body |-> "Rejected failed webhook",
             spawn |-> FALSE]
      [] req.event = "endpoint.url_validation" ->
            IF ~req.plainToken
            THEN [next |-> "answered", status |-> 400, body |-> "Invalid payload",
                  spawn |-> FALSE]
            ELSE IF ~req.secretSet
            THEN [next |-> "answered", status |-> 500,
                  body |-> "Server configuration error", spawn |-> FALSE]
            ELSE [next |-> "answered", status |-> 200,
                  body |-> "plainToken+encryptedToken", spawn |-> FALSE]
      [] EnvelopeInvalid(req) ->
            [next |-> "answered", status |-> 400, body |-> "Invalid webhook payload",
             spawn |-> FALSE]
      [] req.event = "recording.transcript_completed" ->
            IF req.files \in {"no_object", "missing"}
            THEN [next |-> "answered", status |-> 400,
                  body |-> "Invalid transcript payload", spawn |-> FALSE]
            ELSE [next |-> "answered", status |-> DispatchResponse(req).status,
                  body |-> DispatchResponse(req).body, spawn |-> TRUE]
      [] OTHER ->
            [next |-> "answered", status |-> 200, body |-> "success - unhandled event",
             spawn |-> FALSE]

\* recording_files.find(file => file.recording_type === 'audio_transcript')
HasTranscriptFile(req) == req.files = "transcript"

\* The request req is served; a run it starts takes the slot r and runs up to
\* its first await (the duplicate query), or returns when no transcript file
\* is listed.
WebhookPOST(req, r) ==
    /\ LET e == WebhookEntry(req) IN
       IF e.spawn
       THEN /\ runs[r].pc = "free"
            /\ runs' = [runs EXCEPT ![r] =
                    [FreeRun EXCEPT
                        !.req = req,
                        !.ack = IF HasTranscriptFile(req) \/ DispatchResponse(req) # Pending
                                THEN [status |-> e.status, body |-> e.body]
                                ELSE AwaitedResponse("returned"),
                        !.pc = IF HasTranscriptFile(req) THEN "precheck" ELSE "returned",
                        !.out = IF HasTranscriptFile(req) THEN None
                                ELSE "no_transcript_file"]]
            /\ UNCHANGED webhook
       ELSE /\ webhook' = [req |-> req, next |-> e.next, status |-> e.status,
                           body |-> e.body, answer |-> ChallengeAnswer(req)]
            /\ UNCHANGED runs
    /\ UNCHANGED <<transcripts, nextId, slackMsgs, zoomAPI, insertCount,
                   deleteCount, inter, view, pure>>

\* -------------------------------------------------------- view endpoint (GET)
NoSecret == <<"", 0>>
WrongSecret == <<"guess", 0>>

TextBody(msg) == <<"text/plain", msg, "">>

\* transcript.summary || transcript.transcript_content.cleaned || '...'
SummaryContent(row) == IF row.summary # "" THEN row.summary ELSE "cleaned"

\* A handler that renders the record whatever secret is supplied.
SecretMatches_Always(row, secret) == TRUE

\* transcript.view_secret !== secret
SecretMatches(row, secret) == row.view_secret = secret

\* handler(request, response) of the view-summary endpoint.
\* req.id = 0 stands for a missing id, NoSecret for a missing secret.
ViewHandler(store, req) ==
    IF req.id = 0 THEN [status |-> 400, body |-> TextBody("Transcript ID is required.")]
    ELSE IF req.secret = NoSecret
    THEN [status |-> 401, body |-> TextBody("Access token is required.")]
    ELSE LET res == SelectSingle(store, req.id, req.fault) IN
         IF res.error
         THEN [status |-> 500, body |-> TextBody("Error fetching transcript summary.")]
         ELSE IF res.null
         THEN [status |-> 404, body |-> TextBody("Transcript summary not found.")]
         ELSE IF ~SecretMatches(res.data, req.secret)
         THEN [status |-> 403, body |-> TextBody("Invalid access token.")]
         ELSE [status |-> 200,
               body |-> <<"text/html", res.data.topic, SummaryContent(res.data)>>]

ViewGET(req) ==
    /\ view' = [req |-> req] @@ ViewHandler(transcripts, req)
    /\ UNCHANGED <<transcripts, nextId, runs, slackMsgs, zoomAPI, insertCount,
                   deleteCount, webhook, inter, pure>>

\* ------------------------------------------------------------ request sets
Ids == 1..(MaxRuns + 1)

\* Deliveries of recording.transcript_completed that reach the pipeline.
PipelineReqs ==
    {[BaseReq EXCEPT !.key = k, !.token = v[1], !.files = v[2]] :
        k \in Keys,
        v \in {<<TRUE, "transcript">>, <<FALSE, "transcript">>,
               <<TRUE, "no_transcript">>}}

SigKinds == {"valid", "invalid", "absent", "no_timestamp"}

\* Requests of every shape the webhook endpoint distinguishes.
WebhookReqs ==
    {[BaseReq EXCEPT !.sig = g, !.secretSet = c, !.files = f] :
        g \in SigKinds, c \in BOOLEAN,
        f \in {"no_object", "missing", "empty", "no_transcript", "transcript"}}
    \cup {[BaseReq EXCEPT !.status = st, !.sig = g] :
            st \in {"-1", "500"}, g \in {"valid", "absent"}}
    \cup {[BaseReq EXCEPT !.token = FALSE]}
    \cup {[BaseReq EXCEPT !.event = "endpoint.url_validation", !.status = st,
                          !.plainToken = t] :
            st \in {"-1", "500"}, t \in BOOLEAN}
    \cup {[BaseReq EXCEPT !.event = "endpoint.url_validation", !.plainToken = t,
                          !.secretSet = c, !.sig = g] :
            t \in BOOLEAN, c \in BOOLEAN, g \in {"valid", "absent"}}
    \cup {[BaseReq EXCEPT !.event = e, !.hasPayload = h, !.sig = g] :
            e \in {"meeting.started", ""}, h \in BOOLEAN, g \in {"valid", "absent"}}
    \cup {[BaseReq EXCEPT !.event = "meeting.started", !.status = st, !.hasPayload = h] :
            st \in {"-1", "500"}, h \in BOOLEAN}
    \cup {[BaseReq EXCEPT !.json = FALSE]}

\* Clicks on the delete button of a delivered notification, as Slack sends
\* them: the payload carries the button's value.
DeleteClicks ==
    {[BaseInteractiveReq EXCEPT !.body.id = m.value] :
        m \in {x \in slackMsgs : x.kind = "summary"}}

\* Requests of every shape the interactive endpoint distinguishes.
InteractiveReqs ==
    {[BaseInteractiveReq EXCEPT !.secretSet = c, !.sig = g, !.tsPresent = t,
                                !.age = a] :
        c \in BOOLEAN, g \in {"valid", "wrong", "short", "absent"},
        t \in BOOLEAN, a \in {0, ReplayWindow, ReplayWindow + 1}}
    \cup {[BaseInteractiveReq EXCEPT !.body.kind = b] :
            b \in {"no_payload", "bad_json", "view_submission",
                   "block_actions_other", "delete_nan"}}
    \cup {[BaseInteractiveReq EXCEPT !.body.id = n, !.body.user = u] :
            n \in Ids, u \in BOOLEAN}

ViewReqs ==
    {[id |-> n, secret |-> x, fault |-> f] :
        n \in {0} \cup Ids,
        x \in {NoSecret, WrongSecret} \cup {randomUUID(r) : r \in Runs},
        f \in BOOLEAN}

\* ---------------------------------------------------------- specifications
Init ==
    /\ transcripts = {}
    /\ nextId = 1
    /\ runs = [r \in Runs |-> FreeRun]
    /\ slackMsgs = {}
    /\ zoomAPI \in {[configured |-> c, accessToken |-> None] : c \in BOOLEAN}
    /\ insertCount = [k \in Keys |-> 0]
    /\ deleteCount = [k \in Keys |-> 0]
    /\ webhook = [req |-> BaseReq, next |-> "free", status |-> 0, body |-> None,
                  answer |-> NoAnswer]
    /\ inter = [i \in Inters |-> FreeInter]
    /\ view = [req |-> [id |-> 0, secret |-> NoSecret, fault |-> FALSE],
               status |-> 0, body |-> TextBody("")]
    /\ pure = NoCall

\* The lowest unused run slot.
FirstFree(r) ==
    /\ runs[r].pc = "free"
    /\ \A q \in Runs : q < r => runs[q].pc # "free"

FirstFreeInter(i) ==
    /\ inter[i].pc = "free"
    /\ \A q \in Inters : q < i => inter[q].pc # "free"

\* A position of the request in a fixed order of PipelineReqs.
ReqRank(req) ==
    (IF req.key = K1 THEN 0 ELSE 3)
    + (IF req.files # "transcript" THEN 2 ELSE IF ~req.token THEN 1 ELSE 0)

\* Runs are interchangeable and a delivery touches nothing but its own slot,
\* so every behaviour has an equivalent one in which the slots are filled in
\* non-decreasing order of request.
InOrder(r, req) == \A q \in Runs : q < r => ReqRank(runs[q].req) <= ReqRank(req)

\* A delivery of a transcript-completed event.
Deliver ==
    \E r \in Runs, req \in PipelineReqs :
        FirstFree(r) /\ InOrder(r, req) /\ WebhookPOST(req, r)

\* A pipeline run takes its next step.
Step == \E r \in Runs : RunStep(r)

\* A user clicks a delete button.
Click == \E i \in Inters, req \in DeleteClicks : FirstFreeInter(i) /\ InteractivePOST(i, req)

Lookup_ == \E i \in Inters : ILookup(i)

Delete == \E i \in Inters : IDelete(i)

Next == Deliver \/ Step \/ Click \/ Lookup_ \/ Delete

Spec == Init /\ [][Next]_vars

\* Concurrent deliveries and their runs, with no delete click.
NextRace == Deliver \/ Step

SpecRace == Init /\ [][NextRace]_vars

\* Every call a run is waiting for (store, fetch, model, chat) returns or
\* fails in the end: a run that can take a step eventually takes one.
CallsReturn == \A r \in Runs : WF_vars(RunStep(r))

\* Concurrent deliveries for one recording that lists a transcript file, and
\* their runs.
DeliverSame ==
    \E r \in Runs, req \in {q \in PipelineReqs : q.key = K1 /\ HasTranscriptFile(q)} :
        FirstFree(r) /\ InOrder(r, req) /\ WebhookPOST(req, r)

NextSame == DeliverSame \/ Step

SpecRaceFair == Init /\ [][NextSame]_vars /\ CallsReturn

\* One request of any shape at the webhook endpoint, one pipeline run.
AnyWebhook == \E req \in WebhookReqs : WebhookPOST(req, 1)

Step1 == RunStep(1)

NextWebhook == AnyWebhook \/ Step1

SpecWebhook == Init /\ [][NextWebhook]_vars

\* Requests of any shape at the interactive endpoint, against one pipeline run.
Deliver1 == \E req \in PipelineReqs : WebhookPOST(req, 1)

AnyInteractive == \E req \in InteractiveReqs : InteractivePOST(1, req)

Lookup1 == ILookup(1)

Delete1 == IDelete(1)

NextInteractive == Deliver1 \/ Step1 \/ AnyInteractive \/ Lookup1 \/ Delete1

SpecInteractive == Init /\ [][NextInteractive]_vars

\* The view endpoint against one pipeline run and one delete click.
Click1 == \E req \in DeleteClicks : InteractivePOST(1, req)

AnyView == \E req \in ViewReqs : ViewGET(req)

NextView == Deliver1 \/ Step1 \/ Click1 \/ Lookup1 \/ Delete1 \/ AnyView

SpecView == Init /\ [][NextView]_vars

\* The view link of a delivered notification is opened, with its secret or
\* with a guessed one, while deliveries and runs go on and a delete button is
\* clicked.
ViewLinks ==
    UNION {{[id |-> m.link[1], secret |-> x, fault |-> FALSE] :
                x \in {m.link[2], WrongSecret}} :
            m \in {n \in slackMsgs : n.kind = "summary"}}

OpenLink == \E req \in ViewLinks : ViewGET(req)

NextRecords == Deliver \/ Step \/ Click1 \/ Lookup1 \/ Delete1 \/ OpenLink

SpecRecords == Init /\ [][NextRecords]_vars

\* ================================================================== claims
\* ------------------------------------------------------- cleanVTTTranscript
\* A line is a sequence of pieces; ":" and the white-space pieces stand for
\* themselves.
IsSpace(piece) == piece \in {" ", "\t", "\r"}

RECURSIVE TrimLeft(_)
TrimLeft(line) ==
    IF line # <<>> /\ IsSpace(Head(line)) THEN TrimLeft(Tail(line)) ELSE line

RECURSIVE TrimRight(_)
TrimRight(line) ==
    IF line # <<>> /\ IsSpace(line[Len(line)])
    THEN TrimRight(SubSeq(line, 1, Len(line) - 1))
    ELSE line

\* line.trim()
trim(line) == TrimRight(TrimLeft(line))

DigitPieces == {"1", "2", "42"}

TimePieces == {"00:00:01.000", "00:00:04.000"}

\* !line || /^\d+$/.test(line) || /^\d{2}:\d{2}:\d{2}/.test(line)
SkippedLine(line) ==
    \/ line = <<>>
    \/ \A i \in DOMAIN line : line[i] \in DigitPieces
    \/ Head(line) \in TimePieces

\* line.match(/^(.+?):\s*(.+)$/): the speaker ends before the first colon
\* that has something before it and, after optional white space, something
\* behind it; the text is everything behind that.
MatchSpeaker(line) ==
    LET colons == {c \in 2..Len(line) :
                      /\ line[c] = ":"
                      /\ TrimLeft(SubSeq(line, c + 1, Len(line))) # <<>>}
    IN IF colons = {}
       THEN [matched |-> FALSE, speaker |-> <<>>, text |-> <<>>]
       ELSE LET c == CHOOSE x \in colons : \A y \in colons : x <= y IN
            [matched |-> TRUE, speaker |-> SubSeq(line, 1, c - 1),
             text |-> TrimLeft(SubSeq(line, c + 1, Len(line)))]

NoMessage == [set |-> FALSE, speaker |-> <<>>, text |-> <<>>]

\* A cleaner that starts a new turn at every content line.
SameSpeaker_Never(currentMessage, speaker) == FALSE

\* currentMessage && currentMessage.speaker === speaker
SameSpeaker(currentMessage, speaker) ==
    currentMessage.set /\ currentMessage.speaker = speaker

\* The for loop over the lines, from line i on.
RECURSIVE CleanLoop(_, _, _, _)
CleanLoop(lines, i, messages, currentMessage) ==
    IF i > Len(lines)
    THEN IF currentMessage.set THEN Append(messages, currentMessage) ELSE messages
    ELSE LET line == trim(lines[i])
             m == MatchSpeaker(line)
         IN
         IF SkippedLine(line) \/ ~m.matched
         THEN CleanLoop(lines, i + 1, messages, currentMessage)
         ELSE IF SameSpeaker(currentMessage, m.speaker)
         THEN CleanLoop(lines, i + 1, messages,
                        [currentMessage EXCEPT !.text = @ \o <<" ">> \o m.text])
         ELSE CleanLoop(lines, i + 1,
                        IF currentMessage.set THEN Append(messages, currentMessage)
                        ELSE messages,
                        [set |-> TRUE, speaker |-> m.speaker, text |-> m.text])

\* messages.map(msg => `${msg.speaker}: ${msg.text}`).join('\n')
RECURSIVE FormatMessages(_, _)
FormatMessages(messages, i) ==
    IF i > Len(messages) THEN <<>>
    ELSE (IF i > 1 THEN <<"\n">> ELSE <<>>)
         \o messages[i].speaker \o <<": ">> \o messages[i].text
         \o FormatMessages(messages, i + 1)

\* cleanVTTTranscript on the lines of vttContent.split('\n'): the first two
\* lines (the WEBVTT header and the line after it) are dropped.
cleanVTTTranscript(lines) ==
    FormatMessages(CleanLoop(SubSeq(lines, 3, Len(lines)), 1, <<>>, NoMessage), 1)

\* Calls of downloadTranscriptWithRetry on every sequence of fetch answers,
\* with and without a download token.
FetchResps ==
    DownloadResps \cup
    {FetchResponse(FALSE, TRUE, TRUE, <<>>, VttBody),
     FetchResponse(FALSE, TRUE, FALSE, <<"Text/HTML">>, VttBody),
     FetchResponse(FALSE, TRUE, FALSE, <<"text/vtt">>, <<"WEBVTT", "<!doctype html>">>),
     FetchResponse(FALSE, TRUE, TRUE, <<>>, <<"<!DocType HTML>">>),
     FetchResponse(FALSE, TRUE, FALSE, <<"text/plain">>, <<"<HTML>", "Alice: hello">>)}

CallDownload ==
    /\ pure.fn = "none"
    /\ \E downloadToken \in BOOLEAN, resps \in [1..maxRetries -> FetchResps] :
         pure' = [fn |-> "downloadTranscriptWithRetry",
                  downloadToken |-> downloadToken, resps |-> resps,
                  result |-> downloadTranscriptWithRetry(downloadToken, resps)]
    /\ UNCHANGED <<transcripts, nextId, runs, slackMsgs, zoomAPI, insertCount,
                   deleteCount, webhook, inter, view>>

SpecDownload == Init /\ [][CallDownload]_vars

\* Calls of generateSummaryWithRelevance on transcripts of one or two pieces,
\* with and without a trigger phrase in some letter case, and on every
\* sequence of generateObject answers.
MaxPieces == 2

TextPieces ==
    {"Alice: hello", "Clarity Test", "clarity copilot test", "CLARITY COPILOT TEST",
     "Clarity System Test", "SYSTEM TEST CLARITY", "Testing Clarity System"}

SummaryInputs ==
    {Transcript(pieces, 400) :
        pieces \in UNION {[1..n -> TextPieces] : n \in 1..MaxPieces}}

\* What generateObject can give: an object, or one of two exceptions.
GenerateObjectAnswers == SummaryResps \cup ModelFailures

CallSummary ==
    /\ pure.fn = "none"
    /\ \E tx \in SummaryInputs, resps \in [1..maxAttempts -> GenerateObjectAnswers] :
         pure' = [fn |-> "generateSummaryWithRelevance", transcript |-> tx,
                  resps |-> resps,
                  result |-> generateSummaryWithRelevance(tx, resps)]
    /\ UNCHANGED <<transcripts, nextId, runs, slackMsgs, zoomAPI, insertCount,
                   deleteCount, webhook, inter, view>>

SpecSummary == Init /\ [][CallSummary]_vars

\* Calls of cleanVTTTranscript on transcripts of up to MaxLines lines after
\* the header. A line is given with what it is (kind, speaker, text) and with
\* the pieces the function reads (raw).
MaxLines == 4

VttLine(kind, speaker, text, raw) ==
    [kind |-> kind, speaker |-> speaker, text |-> text, raw |-> raw]

VttHeader ==
    <<VttLine("header", <<>>, <<>>, <<"WEBVTT">>), VttLine("blank", <<>>, <<>>, <<>>)>>

VttLines ==
    {VttLine("blank", <<>>, <<>>, <<" ">>),
     VttLine("number", <<>>, <<>>, <<"1">>),
     VttLine("timestamp", <<>>, <<>>, <<"00:00:01.000", " --> ", "00:00:04.000">>),
     VttLine("content", <<"Alice">>, <<"hello">>, <<"Alice", ":", " ", "hello">>),
     VttLine("content", <<"Alice">>, <<"there">>, <<" ", "Alice", ":", "there", "\r">>),
     VttLine("content", <<"Bob">>, <<"see you at 10", ":", "30">>,
             <<"Bob", ":", " ", "see you at 10", ":", "30">>),
     VttLine("plain", <<>>, <<>>, <<"and so on">>),
     VttLine("plain", <<>>, <<>>, <<"Alice", ":", " ">>)}

CleanInputs ==
    {VttHeader \o body : body \in UNION {[1..n -> VttLines] : n \in 0..MaxLines}}

CallClean ==
    /\ pure.fn = "none"
    /\ \E lines \in CleanInputs :
         pure' = [fn |-> "cleanVTTTranscript", lines |-> lines,
                  result |-> cleanVTTTranscript([i \in DOMAIN lines |-> lines[i].raw])]
    /\ UNCHANGED <<transcripts, nextId, runs, slackMsgs, zoomAPI, insertCount,
                   deleteCount, webhook, inter, view>>

SpecClean == Init /\ [][CallClean]_vars

\* Calls of cleanVTTTranscript on any text: the empty string (one empty line),
\* or a header line followed at once by up to MaxLines lines of any kind.
EmptyInput == <<VttLine("blank", <<>>, <<>>, <<>>)>>

AnyTextInputs ==
    {EmptyInput} \cup
    {<<VttHeader[1]>> \o body : body \in UNION {[1..n -> VttLines] : n \in 0..MaxLines}}

CallCleanAnyText ==
    /\ pure.fn = "none"
    /\ \E lines \in AnyTextInputs :
         pure' = [fn |-> "cleanVTTTranscript", lines |-> lines,
                  result |-> cleanVTTTranscript([i \in DOMAIN lines |-> lines[i].raw])]
    /\ UNCHANGED <<transcripts, nextId, runs, slackMsgs, zoomAPI, insertCount,
                   deleteCount, webhook, inter, view>>

SpecCleanAnyText == Init /\ [][CallCleanAnyText]_vars

\* ------------------------------------- extractParticipantsFromCleanedText
\* Speaker names of 50 and of 51 characters.
Name50 == "Maria-Alexandra Konstantinopoulou-Papadimitriou X."

Name51 == "Maria-Alexandra Konstantinopoulou-Papadimitriou XI."

speakerMaxChars == 50

\* The number of characters of a piece; the pieces not listed are short words.
CharLen(piece) ==
    CASE piece = Name50 -> 50
      [] piece = Name51 -> 51
      [] piece = ": " -> 2
      [] piece \in {":", " ", "\t", "\r", "\n"} -> 1
      [] piece \in TimePieces -> 12
      [] OTHER -> 5

RECURSIVE TextLen(_)
TextLen(text) == IF text = <<>> THEN 0 ELSE CharLen(Head(text)) + TextLen(Tail(text))

HoldsColon(piece) == piece \in {":", ": "} \cup TimePieces

\* cleanedText.split('\n')
RECURSIVE split(_, _)
split(text, current) ==
    IF text = <<>> THEN <<current>>
    ELSE IF Head(text) = "\n" THEN <<current>> \o split(Tail(text), <<>>)
    ELSE split(Tail(text), Append(current, Head(text)))

\* line.match(/^([^:\n]{1,50}):\s+/): what stands before the first colon, if
\* it is 1 to 50 characters long and the colon is followed by white space.
MatchSpeakerPrefix(line) ==
    LET colons == {c \in DOMAIN line : HoldsColon(line[c])} IN
    IF colons = {}
    THEN [matched |-> FALSE, speaker |-> <<>>]
    ELSE LET c == CHOOSE x \in colons : \A y \in colons : x <= y
             prefix == SubSeq(line, 1, c - 1)
             spaced == \/ line[c] = ": "
                       \/ line[c] = ":" /\ c < Len(line) /\ IsSpace(line[c + 1])
         IN [matched |-> /\ spaced
                         /\ TextLen(prefix) >= 1
                         /\ TextLen(prefix) <= speakerMaxChars,
             speaker |-> prefix]

\* participants.add(...) on a Set: insertion order, no duplicates.
SetAdd(participants, name) ==
    IF \E i \in DOMAIN participants : participants[i] = name THEN participants
    ELSE Append(participants, name)

RECURSIVE ParticipantsLoop(_, _, _)
ParticipantsLoop(lines, i, participants) ==
    IF i > Len(lines) THEN participants
    ELSE LET m == MatchSpeakerPrefix(lines[i]) IN
         ParticipantsLoop(lines, i + 1,
                          IF m.matched /\ m.speaker # <<>>
                          THEN SetAdd(participants, trim(m.speaker))
                          ELSE participants)

extractParticipantsFromCleanedText(cleanedText) ==
    IF cleanedText = <<>> THEN <<>>
    ELSE ParticipantsLoop(split(cleanedText, <<>>), 1, <<>>)

\* Calls of extractParticipantsFromCleanedText on the cleaned text of
\* transcripts of up to MaxLines lines, as the pipeline calls it; among the
\* speakers are names of 50 and of 51 characters.
SpeakerLines ==
    VttLines \cup
    {VttLine("content", <<Name50>>, <<"hello">>, <<Name50, ":", " ", "hello">>),
     VttLine("content", <<Name51>>, <<"hello">>, <<Name51, ":", " ", "hello">>)}

ExtractInputs ==
    {VttHeader \o body : body \in UNION {[1..n -> SpeakerLines] : n \in 0..MaxLines}}

CallExtract ==
    /\ pure.fn = "none"
    /\ \E lines \in ExtractInputs :
         LET cleaned == cleanVTTTranscript([i \in DOMAIN lines |-> lines[i].raw]) IN
         pure' = [fn |-> "extractParticipantsFromCleanedText", lines |-> lines,
                  cleanedText |-> cleaned,
                  result |-> extractParticipantsFromCleanedText(cleaned)]
    /\ UNCHANGED <<transcripts, nextId, runs, slackMsgs, zoomAPI, insertCount,
                   deleteCount, webhook, inter, view>>

SpecExtract == Init /\ [][CallExtract]_vars

\* Calls of generateComprehensiveAnalysis with and without a summary, on the
\* empty transcript and on transcripts of 49, 50 and 400 characters, with and
\* without a trigger phrase, and on every sequence of generateObject answers.
AnalysisInputs ==
    {Transcript(<<>>, 0)} \cup
    {Transcript(pieces, n) :
        pieces \in UNION {[1..k -> TextPieces] : k \in 1..MaxPieces},
        n \in {minTranscriptChars - 1, minTranscriptChars, 400}}

AnalysisAnswers == AnalysisResps \cup ModelFailures

CallAnalysis ==
    /\ pure.fn = "none"
    /\ \E summary \in {"", "llm"}, tx \in AnalysisInputs,
          resps \in [1..maxAttempts -> AnalysisAnswers] :
         pure' = [fn |-> "generateComprehensiveAnalysis", summary |-> summary,
                  transcript |-> tx, resps |-> resps,
                  result |-> generateComprehensiveAnalysis(summary, tx, resps)]
    /\ UNCHANGED <<transcripts, nextId, runs, slackMsgs, zoomAPI, insertCount,
                   deleteCount, webhook, inter, view>>

SpecAnalysis == Init /\ [][CallAnalysis]_vars

\* Either one call of downloadTranscriptWithRetry or one delivery with its
\* pipeline run.
RunAlone == pure.fn = "none" /\ (Deliver1 \/ Step1)

DownloadAlone == runs[1].pc = "free" /\ CallDownload

NextNoToken == RunAlone \/ DownloadAlone

SpecNoToken == Init /\ [][NextNoToken]_vars

\* ----------------------------------------------------------------- claims
Started(r) == runs[r].pc # "free"

MessagesOf(r) == {m \in slackMsgs : m.kind = "summary" /\ m.src = <<"run", r>>}

RowsOf(r) == {t \in transcripts : t.view_secret = randomUUID(r)}

\* C1: for every natural key the transcripts table holds at most one row with
\* that key in every reachable state, whatever the interleaving of the runs
\* for that key (both past the duplicate query before either inserts, or the
\* duplicate query answered with a store error).
C1_AtMostOneRowPerKey ==
    \A k \in Keys : Cardinality(RowsWithKey(transcripts, k)) <= 1

\* Two runs for one key both went past the duplicate query; one created the
\* row and the other was refused by the index.
C1_Witness ==
    \E r1, r2 \in Runs :
        /\ r1 # r2
        /\ Started(r1) /\ Started(r2)
        /\ runs[r1].req.key = runs[r2].req.key
        /\ "insert" \in runs[r1].did
        /\ runs[r2].out = "dup_conflict"

\* C2: a run whose summary call returned isRelevant = false inserts no row and
\* sends no chat message, at any later point of the run.
C2_IrrelevantNoRecordNoMessage ==
    \A r \in Runs :
        "irrelevant" \in runs[r].did =>
            /\ runs[r].pc = "returned"
            /\ runs[r].did \cap {"insert", "insert_failed", "notify", "zoom"} = {}
            /\ RowsOf(r) = {}
            /\ MessagesOf(r) = {}

C2_Witness ==
    \E r \in Runs : runs[r].out = "irrelevant" /\ "irrelevant" \in runs[r].did

\* C6: an insert refused with the uniqueness-violation code ends the run
\* normally: the run returns (it does not throw), sends no notification and
\* leaves the store unchanged; a run never ends with a raised error because of
\* the insert, so the delivery that does not create the row ends at the
\* duplicate query or at the swallowed conflict.
C6_ConflictEndsNormally ==
    \A r \in Runs :
        /\ runs[r].out = "dup_conflict" =>
              /\ runs[r].pc = "returned"
              /\ runs[r].rid = 0
              /\ "notify" \notin runs[r].did
              /\ MessagesOf(r) = {}
              /\ RowsOf(r) = {}
        /\ runs[r].pc = "threw" =>
              /\ runs[r].out \in {"no_token", "download", "summary", "analysis"}
              /\ "insert_failed" \notin runs[r].did
        /\ runs[r].did \cap {"found", "insert_failed"} # {} =>
              /\ runs[r].pc = "returned"
              /\ runs[r].out \in {"duplicate", "dup_conflict", "insert_error"}

C6_Witness ==
    \E r \in Runs :
        /\ runs[r].out = "dup_conflict"
        /\ RowsWithKey(transcripts, runs[r].req.key) # {}

\* C7: every notification was preceded, in its run, by a successful insert
\* that returned a record id, and its delete button carries exactly that id;
\* a run whose insert failed or returned no id sends no notification.
C7_NotificationAfterInsert ==
    /\ \A m \in slackMsgs :
          m.kind = "summary" =>
              LET r == m.src[2] IN
              /\ "insert" \in runs[r].did
              /\ "insert_failed" \notin runs[r].did
              /\ runs[r].rid # 0
              /\ runs[r].rid < nextId
              /\ m.value = runs[r].rid
    /\ \A r \in Runs :
          (Started(r) /\ ("insert_failed" \in runs[r].did \/ runs[r].out = "no_id")) =>
              /\ MessagesOf(r) = {}
              /\ "notify" \notin runs[r].did
              /\ runs[r].pc \in {"returned", "threw"}

C7_Witness ==
    /\ \E m \in slackMsgs : m.kind = "summary" /\ m.value # 0
    /\ \E r \in Runs : runs[r].out \in {"insert_error", "dup_conflict", "no_id"}

\* C8: in every run the duplicate query precedes the first download attempt
\* and every model invocation; a run whose query found a row ends having made
\* no download, no model invocation, no Zoom API call, no insert and no
\* notification.
C8_QueryFirst ==
    \A r \in Runs :
        /\ runs[r].did \cap {"download", "model", "zoom", "insert", "insert_failed",
                             "notify"} # {} => "query" \in runs[r].did
        /\ runs[r].pc \in {"download", "zoom", "insert", "notify"} => "query" \in runs[r].did
        /\ "found" \in runs[r].did =>
              /\ runs[r].pc = "returned"
              /\ runs[r].did = {"query", "found"}
              /\ runs[r].rid = 0
              /\ MessagesOf(r) = {}
              /\ RowsOf(r) = {}

C8_Witness ==
    \E r \in Runs : runs[r].out = "duplicate" /\ "found" \in runs[r].did

\* C9 (as stated): over any sequence of deliveries and delete actions, a row
\* with a given natural key is inserted at most once in the whole history.
C9_InsertedAtMostOnce ==
    \A k \in Keys : insertCount[k] <= 1

\* C9 (amended): a row with a given natural key is inserted only while no row
\* with that key is in the table, so between two inserts for a key the earlier
\* row was deleted; a delivery that arrives after the deletion does create a
\* new row.
C9_InsertedOnlyWhenAbsent ==
    \A k \in Keys :
        /\ insertCount[k] <= deleteCount[k] + 1
        /\ Cardinality(RowsWithKey(transcripts, k)) + deleteCount[k] = insertCount[k]

C9_Witness ==
    \E k \in Keys : insertCount[k] = 2 /\ deleteCount[k] = 1

\* The verification the endpoint is claimed to perform on a webhook request:
\* the shared secret is configured and the signature header matches the body.
ZoomSignatureAccepted(req) == req.secretSet /\ req.sig = "valid"

\* C3: a recording.transcript_completed request that is not acceptably signed
\* (a header absent, the signature different from the computed one, or the
\* shared secret not configured) is answered with 401 and starts no run.
C3_UnsignedRejected ==
    /\ (/\ webhook.next # "free"
        /\ webhook.req.json
        /\ webhook.req.event = "recording.transcript_completed"
        /\ ~ZoomSignatureAccepted(webhook.req)) => webhook.status = 401
    /\ \A r \in Runs : Started(r) => ZoomSignatureAccepted(runs[r].req)

CarriesRecordingFiles(req) ==
    /\ req.json
    /\ req.event = "recording.transcript_completed"
    /\ req.hasPayload
    /\ req.files \notin {"no_object", "missing"}

SuccessResponse == [status |-> 200, body |-> "success"]

\* C4 (as stated): every recording.transcript_completed request that carries
\* payload.object with recording_files is answered 200 {status:'success'},
\* whatever the run it starts does.
C4_AlwaysSuccess ==
    /\ \A r \in Runs : Started(r) => runs[r].ack = SuccessResponse
    /\ (webhook.next # "free" /\ CarriesRecordingFiles(webhook.req)) =>
          (webhook.status = 200 /\ webhook.body = "success")

\* C4 (amended): every such request whose top-level status field is neither
\* '-1' nor '500' starts a run and is answered 200 {status:'success'} at once;
\* the response stays the same at every step of the run and however the run
\* ends (returned, thrown or still under way). A request whose top-level
\* status is '-1' or '500' is answered 200 'Rejected failed webhook' and
\* starts no run.
C4_ImmediateSuccess ==
    /\ \A r \in Runs :
          Started(r) =>
              /\ runs[r].ack = SuccessResponse
              /\ CarriesRecordingFiles(runs[r].req)
              /\ runs[r].req.status \notin {"-1", "500"}
    /\ (webhook.next # "free" /\ CarriesRecordingFiles(webhook.req)) =>
          /\ webhook.req.status \in {"-1", "500"}
          /\ webhook.status = 200
          /\ webhook.body = "Rejected failed webhook"

C4_Witness ==
    \E r \in Runs : runs[r].pc = "threw" /\ runs[r].ack = SuccessResponse

IsHtml(resp) == resp.status = 200 /\ resp.body[1] = "text/html"

\* The same records with another topic and another summary.
WithOtherContent(store) ==
    {[t EXCEPT !.topic = "another topic", !.summary = "another summary"] : t \in store}

HasOnlyOtherSecrets(store, req) ==
    /\ RowsWithId(store, req.id) # {}
    /\ req.secret # NoSecret
    /\ \A t \in RowsWithId(store, req.id) : t.view_secret # req.secret

\* C5 (as stated): the view endpoint returns the HTML rendering if and only if
\* the supplied secret equals the view_secret stored for the supplied id; for
\* an existing id and a non-matching secret the response is 403 and is the
\* same for two stores that differ only in topic and summary.
C5_HtmlIffSecretMatches ==
    \A req \in ViewReqs :
        LET resp == ViewHandler(transcripts, req) IN
        /\ IsHtml(resp) <=> \E t \in RowsWithId(transcripts, req.id) :
                               t.view_secret = req.secret
        /\ HasOnlyOtherSecrets(transcripts, req) =>
              /\ resp.status = 403
              /\ resp = ViewHandler(WithOtherContent(transcripts), req)

\* C5 (amended): the view endpoint returns the HTML rendering if and only if
\* the store query succeeds and the supplied secret equals the view_secret
\* stored for the supplied id; for an existing id and a supplied, non-matching
\* secret the response is 403 when the store query succeeds and 500 when it
\* fails, and in both cases is the same for two stores that differ only in
\* topic and summary.
C5_HtmlIffQueryOkAndSecretMatches ==
    \A req \in ViewReqs :
        LET resp == ViewHandler(transcripts, req) IN
        /\ IsHtml(resp) <=> /\ ~req.fault
                            /\ \E t \in RowsWithId(transcripts, req.id) :
                                  t.view_secret = req.secret
        /\ HasOnlyOtherSecrets(transcripts, req) =>
              /\ resp.status = IF req.fault THEN 500 ELSE 403
              /\ resp = ViewHandler(WithOtherContent(transcripts), req)

C5_Witness ==
    /\ view.status = 403
    /\ HasOnlyOtherSecrets(transcripts, view.req)
    /\ \E t \in RowsWithId(transcripts, view.req.id) : t.summary # ""

\* C10: every request to the interactive endpoint whose signature is absent
\* or differs from the computed one (a different length included), and every
\* request received while the signing secret is not configured, is answered
\* 401 with no store read, no delete and no chat call.
C10_InvalidSignatureIs401 ==
    \A i \in Inters :
        (/\ inter[i].pc # "free"
         /\ \/ ~inter[i].req.secretSet
            \/ inter[i].req.sig \in {"absent", "wrong", "short"}) =>
            /\ inter[i].pc = "answered"
            /\ inter[i].status = 401
            /\ inter[i].did = {}

\* C11: a request to the interactive endpoint whose timestamp is more than
\* 300 seconds old is rejected as invalid even when its signature is correct:
\* it is answered 401 without any store read, delete or chat call, so a
\* replayed signed delete request deletes nothing.
C11_StaleRequestRejected ==
    \A i \in Inters :
        (inter[i].pc # "free" /\ inter[i].req.age > 300) =>
            /\ inter[i].pc = "answered"
            /\ inter[i].status = 401
            /\ inter[i].did = {}

C11_Witness ==
    \E i \in Inters :
        /\ inter[i].pc = "answered"
        /\ inter[i].req.age > 300
        /\ inter[i].req.sig = "valid"
        /\ inter[i].req.secretSet /\ inter[i].req.tsPresent
        /\ inter[i].req.body.kind = "delete"
        /\ RowsWithId(transcripts, inter[i].req.body.id) # {}

\* A response the claim lets a body be returned from: success status, a
\* content-type without 'text/html', a body without '<!doctype html>' in any
\* letter case.
AcceptableResponse(resp) ==
    /\ ~resp.threw
    /\ resp.ok
    /\ resp.contentType.null \/ \A i \in DOMAIN resp.contentType.value :
                                    resp.contentType.value[i] # "text/html"
    /\ \A i \in DOMAIN resp.text :
          resp.text[i] \notin {"<!doctype html>", "<!DOCTYPE html>", "<!DocType HTML>"}

DownloadCalled == pure.fn = "downloadTranscriptWithRetry"

\* C12: with a token, downloadTranscriptWithRetry makes at most 3 attempts;
\* it returns the body of the first acceptable response, every attempt before
\* it having failed; a failed attempt is followed by another while fewer than
\* 3 were made; when all 3 fail, the error of the last attempt is thrown.
C12_DownloadRetries ==
    (DownloadCalled /\ pure.downloadToken) =>
        LET res == pure.result
            resps == pure.resps
        IN
        /\ res.attempts \in 1..3
        /\ \A i \in 1..(res.attempts - 1) : ~AcceptableResponse(resps[i])
        /\ res.ok => /\ AcceptableResponse(resps[res.attempts])
                     /\ res.text = resps[res.attempts].text
        /\ ~res.ok => /\ res.attempts = 3
                      /\ ~AcceptableResponse(resps[3])
                      /\ res.error = AttemptError(resps[3])
                      /\ res.text = <<>>

\* The first two attempts fail (an HTML page served with status 200, then an
\* exception) and the third gives the transcript.
C12_Witness ==
    /\ DownloadCalled /\ pure.downloadToken
    /\ pure.result.ok /\ pure.result.attempts = 3
    /\ pure.resps[1].ok /\ ~pure.resps[1].contentType.null
    /\ pure.resps[1].contentType.value[1] = "text/html"
    /\ pure.resps[2].threw

\* C13: without a download token downloadTranscriptWithRetry throws at once,
\* after zero fetch attempts and zero backoff waits, and the run of such a
\* delivery makes no download attempt, inserts no record and sends no
\* notification.
C13_NoTokenFailsAtOnce ==
    /\ (DownloadCalled /\ ~pure.downloadToken) =>
          /\ ~pure.result.ok
          /\ pure.result.attempts = 0
          /\ pure.result.waits = <<>>
          /\ pure.result.error = "No download token provided in webhook"
    /\ \A r \in Runs :
          (Started(r) /\ ~runs[r].req.token) =>
              /\ runs[r].did \cap {"download", "model", "zoom", "insert",
                                   "insert_failed", "notify"} = {}
              /\ RowsOf(r) = {}
              /\ MessagesOf(r) = {}
              /\ Ended(runs[r].pc) =>
                    \/ runs[r].pc = "threw" /\ runs[r].out = "no_token"
                    \/ runs[r].pc = "returned" /\ runs[r].out = "duplicate"

C13_Witness ==
    \E r \in Runs :
        /\ ~runs[r].req.token
        /\ runs[r].pc = "threw"
        /\ runs[r].out = "no_token"
        /\ "query" \in runs[r].did

NotifyFailed(r) == runs[r].out \in {"no_slack_user", "notify_error"}

NotifyFailureEndsRun ==
    \A r \in Runs :
        NotifyFailed(r) =>
            /\ runs[r].pc = "returned"
            /\ "insert" \in runs[r].did
            /\ MessagesOf(r) = {}
            /\ \E t \in RowsOf(r) : t.id = runs[r].rid /\ t.key = runs[r].req.key

\* C14: after a record has been inserted, a failure of the notification step
\* (no chat user for the host email, the lookup throwing, postMessage
\* throwing) leaves the store as it is, ends the run by a normal return with
\* no message sent, and is not retried: the run takes no further step and its
\* record stays in the store.
C14_NotifyFailureKeepsRecord ==
    /\ NotifyFailureEndsRun
    /\ [][/\ NotifyFailureEndsRun'
          /\ \A r \in Runs :
                /\ (runs[r].pc = "notify" /\ NotifyFailed(r)') =>
                      transcripts' = transcripts
                /\ NotifyFailed(r) => (runs'[r] = runs[r] /\ RowsOf(r)' = RowsOf(r))]_vars

C14_Witness ==
    /\ \E r \in Runs : runs[r].out = "no_slack_user" /\ RowsOf(r) # {}
    /\ \E r \in Runs : runs[r].out = "notify_error" /\ RowsOf(r) # {}

\* Every spelling of a trigger phrase among the pieces of text.
TriggerSpellings ==
    {"clarity copilot test", "CLARITY COPILOT TEST", "Clarity Copilot Test",
     "Clarity System Test", "clarity system test", "SYSTEM TEST CLARITY",
     "system test clarity", "Testing Clarity System", "testing clarity system"}

SummaryCalled == pure.fn = "generateSummaryWithRelevance"

HoldsTrigger(tx) == \E i \in DOMAIN tx.pieces : tx.pieces[i] \in TriggerSpellings

\* C15: for every transcript that holds a trigger phrase, in any letter case
\* and at any position, generateSummaryWithRelevance returns the same fixed
\* result with isRelevant = true and makes no model invocation, whatever the
\* model would have answered.
C15_TriggerBypass ==
    (SummaryCalled /\ HoldsTrigger(pure.transcript)) =>
        /\ ~pure.result.threw
        /\ pure.result.calls = 0
        /\ pure.result.isRelevant
        /\ pure.result.summary = "canned"

\* An upper-case trigger phrase in second position, and a model that would
\* have failed three times.
C15_Witness ==
    /\ SummaryCalled
    /\ Len(pure.transcript.pieces) = 2
    /\ pure.transcript.pieces[1] = "Alice: hello"
    /\ pure.transcript.pieces[2] = "SYSTEM TEST CLARITY"
    /\ \A i \in 1..maxAttempts : pure.resps[i] = "fail"
    /\ pure.result.calls = 0

FailureEndsRun ==
    \A r \in Runs :
        "failed" \in runs[r].did =>
            /\ runs[r].pc = "threw"
            /\ runs[r].out \in {"no_token", "download", "summary", "analysis"}
            /\ runs[r].did \cap {"zoom", "insert", "insert_failed", "notify"} = {}
            /\ runs[r].rid = 0
            /\ RowsOf(r) = {}
            /\ MessagesOf(r) = {}

\* C16: a run whose download, summary generation or metadata extraction
\* failed ends with the error raised, no record inserted and no notification
\* sent; the failing step changes nothing outside that run, and another run
\* goes on to insert and notify.
C16_FailureAbortsOnlyThatRun ==
    /\ FailureEndsRun
    /\ [][/\ FailureEndsRun'
          /\ \A r \in Runs :
                ("failed" \notin runs[r].did /\ "failed" \in runs'[r].did) =>
                    /\ \A q \in Runs \ {r} : runs'[q] = runs[q]
                    /\ UNCHANGED <<transcripts, nextId, slackMsgs, zoomAPI>>]_vars

C16_Witness ==
    \E r, q \in Runs :
        /\ r < q
        /\ runs[r].req.key = runs[q].req.key
        /\ runs[r].pc = "threw" /\ runs[r].out = "analysis"
        /\ runs[q].out = "notified" /\ MessagesOf(q) # {}

CleanCalled == pure.fn = "cleanVTTTranscript"

IsContent(line) == line.kind = "content"

\* The content lines of the input, in input order.
ContentOf(lines) == SelectSeq(lines, IsContent)

\* The content lines at which the speaker differs from the previous one.
TurnStarts(content) ==
    {i \in DOMAIN content : i = 1 \/ content[i].speaker # content[i - 1].speaker}

KthStart(content, k) ==
    CHOOSE s \in TurnStarts(content) :
        Cardinality({t \in TurnStarts(content) : t <= s}) = k

TurnEnd(content, k) ==
    IF k = Cardinality(TurnStarts(content)) THEN Len(content)
    ELSE KthStart(content, k + 1) - 1

RECURSIVE JoinTexts(_, _, _)
JoinTexts(content, s, e) ==
    IF s > e THEN <<>>
    ELSE content[s].text \o (IF s < e THEN <<" ">> ELSE <<>>)
         \o JoinTexts(content, s + 1, e)

ExpectedTurn(content, k) ==
    content[KthStart(content, k)].speaker \o <<": ">>
    \o JoinTexts(content, KthStart(content, k), TurnEnd(content, k))

RECURSIVE ExpectedTurns(_, _)
ExpectedTurns(content, k) ==
    IF k > Cardinality(TurnStarts(content)) THEN <<>>
    ELSE (IF k > 1 THEN <<"\n">> ELSE <<>>) \o ExpectedTurn(content, k)
         \o ExpectedTurns(content, k + 1)

\* C17: cleanVTTTranscript gives one turn per maximal stretch of consecutive
\* content lines of one speaker, in input order; a turn is 'Speaker: ' followed
\* by the texts of its lines joined by a single space, and a new turn starts
\* exactly where the speaker differs from the previous content line's speaker
\* (so n alternating content lines give n turns and two consecutive lines of
\* one speaker give one).
C17_TurnsMerged ==
    CleanCalled =>
        LET content == ContentOf(pure.lines)
            turns == Cardinality(TurnStarts(content))
            breaks == {i \in DOMAIN pure.result : pure.result[i] = "\n"}
        IN
        /\ pure.result = ExpectedTurns(content, 1)
        /\ Cardinality(breaks) = IF turns = 0 THEN 0 ELSE turns - 1

\* Two consecutive lines of one speaker, then alternation: three turns out of
\* four content lines.
C17_Witness ==
    /\ CleanCalled
    /\ Len(ContentOf(pure.lines)) = 4
    /\ TurnStarts(ContentOf(pure.lines)) = {1, 3, 4}
    /\ ContentOf(pure.lines)[1].text # ContentOf(pure.lines)[2].text
    /\ Cardinality({i \in DOMAIN pure.result : pure.result[i] = "\n"}) = 2

\* C18: every validly signed interactive request that carries a payload field
\* and is not a block_actions interaction with the delete_transcript action is
\* answered 200 with no store read and no delete.
C18_UnrecognizedAcknowledged ==
    \A i \in Inters :
        (/\ inter[i].pc # "free"
         /\ verifySlackRequest(inter[i].req) = "valid"
         /\ inter[i].req.body.kind \notin {"no_payload", "delete", "delete_nan"}) =>
            /\ inter[i].pc = "answered"
            /\ inter[i].status = 200
            /\ inter[i].did \cap {"store_read", "store_delete"} = {}

\* C19: a validly signed delete action that fails (the lookup or the delete
\* returns an error) is answered 200, the failure being reported to the
\* acting user by an ephemeral message.
C19_FailedDeleteAnswered200 ==
    \A i \in Inters :
        (/\ inter[i].pc = "answered"
         /\ "store_read" \in inter[i].did
         /\ inter[i].body # "ok") =>
            /\ inter[i].status = 200
            /\ inter[i].req.body.user =>
                  \E m \in slackMsgs : m.kind = "ephemeral" /\ m.src = <<"inter", i>>

IsChallenge(req) == req.json /\ req.event = "endpoint.url_validation"

ExpectedChallengeAnswer ==
    [plainToken |-> PlainToken,
     encryptedToken |-> HmacSha256Hex(ZoomWebhookSecret, PlainToken)]

\* C20 (as stated): an endpoint.url_validation request is answered, whatever
\* its signature headers and with no run started, 400 if the challenge token
\* is missing, 500 if the shared secret is not configured, otherwise 200 with
\* the plainToken and its hex HMAC-SHA256 under the shared secret.
C20_ChallengeAnswered ==
    /\ \A r \in Runs : Started(r) => ~IsChallenge(runs[r].req)
    /\ (webhook.next # "free" /\ IsChallenge(webhook.req)) =>
          /\ webhook.next = "answered"
          /\ IF ~webhook.req.plainToken THEN webhook.status = 400
             ELSE IF ~webhook.req.secretSet THEN webhook.status = 500
             ELSE /\ webhook.status = 200
                  /\ webhook.answer = ExpectedChallengeAnswer

\* C20 (amended): the same for every endpoint.url_validation request whose
\* top-level status field is neither '-1' nor '500'; a request with such a
\* status is answered 200 'Rejected failed webhook' with no challenge answer.
C20_ChallengeAnsweredUnlessRejected ==
    /\ \A r \in Runs : Started(r) => ~IsChallenge(runs[r].req)
    /\ (webhook.next # "free" /\ IsChallenge(webhook.req)) =>
          /\ webhook.next = "answered"
          /\ IF webhook.req.status \in {"-1", "500"}
             THEN /\ webhook.status = 200
                  /\ webhook.body = "Rejected failed webhook"
                  /\ webhook.answer = NoAnswer
             ELSE IF ~webhook.req.plainToken THEN webhook.status = 400
             ELSE IF ~webhook.req.secretSet THEN webhook.status = 500
             ELSE /\ webhook.status = 200
                  /\ webhook.answer = ExpectedChallengeAnswer

C20_Witness ==
    /\ IsChallenge(webhook.req)
    /\ webhook.req.sig = "absent"
    /\ webhook.status = 200
    /\ webhook.answer = ExpectedChallengeAnswer

LacksRecordingFiles(req) ==
    /\ req.json
    /\ req.status \notin {"-1", "500"}
    /\ req.event = "recording.transcript_completed"
    /\ req.hasPayload
    /\ req.files \in {"no_object", "missing", "empty"}

\* C21: a recording.transcript_completed request whose
\* payload.object.recording_files is missing or is an empty list is answered
\* with 400 and starts no pipeline run.
C21_NoFilesRejected ==
    /\ (webhook.next # "free" /\ LacksRecordingFiles(webhook.req)) =>
          webhook.status = 400
    /\ \A r \in Runs : Started(r) => ~LacksRecordingFiles(runs[r].req)

IsOtherEvent(req) ==
    /\ req.json
    /\ req.event \notin {"endpoint.url_validation", "recording.transcript_completed"}

\* C22 (as stated): every webhook request whose event is neither
\* endpoint.url_validation nor recording.transcript_completed is answered 200
\* and starts no pipeline run, whatever the rest of the envelope contains (an
\* absent payload field included).
C22_OtherEventAcknowledged ==
    /\ \A r \in Runs : Started(r) => ~IsOtherEvent(runs[r].req)
    /\ (webhook.next # "free" /\ IsOtherEvent(webhook.req)) =>
          /\ webhook.next = "answered"
          /\ webhook.status = 200

\* C22 (amended): such a request starts no pipeline run; it is answered 200
\* when it names an event and carries a payload field, or when its top-level
\* status is '-1' or '500'; otherwise (no event name, or no payload field) it
\* is answered 400 'Invalid webhook payload'.
C22_OtherEventAcknowledgedIfWellFormed ==
    /\ \A r \in Runs : Started(r) => ~IsOtherEvent(runs[r].req)
    /\ (webhook.next # "free" /\ IsOtherEvent(webhook.req)) =>
          /\ webhook.next = "answered"
          /\ IF webhook.req.status \in {"-1", "500"}
             THEN webhook.status = 200 /\ webhook.body = "Rejected failed webhook"
             ELSE IF webhook.req.event # "" /\ webhook.req.hasPayload
             THEN webhook.status = 200 /\ webhook.body = "success - unhandled event"
             ELSE webhook.status = 400 /\ webhook.body = "Invalid webhook payload"

\* A named event of another kind without a payload field was refused while
\* a run started by an earlier delivery was under way.
C22_Witness ==
    /\ IsOtherEvent(webhook.req)
    /\ webhook.req.event = "meeting.started"
    /\ ~webhook.req.hasPayload
    /\ webhook.req.status = "ok"
    /\ webhook.status = 400
    /\ \E r \in Runs : Started(r)

\* C23: the webhook POST handler always produces an HTTP response: an
\* exception raised while handling a request, a body that is not valid JSON
\* included, gives a 500 response with an error body and never leaves the
\* handler.
C23_AlwaysResponds ==
    webhook.next # "free" =>
        /\ webhook.next = "answered"
        /\ ~webhook.req.json =>
              (webhook.status = 500 /\ webhook.body = "Internal server error")

\* C24: the view endpoint answers 400 when the id or the secret parameter is
\* missing, 403 when both are present and the secret differs from the stored
\* one, 404 when no record with that id exists (for instance after it was
\* deleted), 500 when the store query fails, and 200 otherwise.
C24_ViewStatus ==
    \A req \in ViewReqs :
        ViewHandler(transcripts, req).status =
            IF req.id = 0 \/ req.secret = NoSecret THEN 400
            ELSE IF req.fault THEN 500
            ELSE IF RowsWithId(transcripts, req.id) = {} THEN 404
            ELSE IF \A t \in RowsWithId(transcripts, req.id) : t.view_secret # req.secret
            THEN 403
            ELSE 200

\* C25: one call of generateSummaryWithRelevance on a transcript without
\* trigger phrase makes at least 1 and at most 3 model invocations: it returns
\* the result of the first invocation that succeeds and makes no further
\* invocation after it; after a failed invocation that is not the third it
\* waits a fixed delay and tries again; if all 3 fail it throws the error of
\* the third.
C25_SummaryRetries ==
    (SummaryCalled /\ ~HoldsTrigger(pure.transcript)) =>
        LET res == pure.result
            resps == pure.resps
        IN
        /\ res.calls \in 1..3
        /\ \A i \in 1..(res.calls - 1) : resps[i] \in {"fail", "fail_schema"}
        /\ res.waits = [i \in 1..(res.calls - 1) |-> 750]
        /\ ~res.threw =>
              /\ resps[res.calls] \notin {"fail", "fail_schema"}
              /\ res.summary = SummaryOf(resps[res.calls]).summary
              /\ res.isRelevant = SummaryOf(resps[res.calls]).isRelevant
        /\ res.threw =>
              /\ res.calls = 3
              /\ resps[3] \in {"fail", "fail_schema"}
              /\ res.error = resps[3]

\* Three failed invocations, the last with another error than the first two.
C25_Witness ==
    /\ SummaryCalled /\ ~HoldsTrigger(pure.transcript)
    /\ pure.resps = <<"fail", "fail", "fail_schema">>
    /\ pure.result.threw
    /\ pure.result.error = "fail_schema"
    /\ pure.result.waits = <<750, 750>>

ReachedPersistence(r) == runs[r].did \cap {"insert", "insert_failed"} # {}

\* Queries for the natural key the run r has made: the duplicate query is the
\* only step of a run that reads the store.
QueriesOf(r) == IF "query" \in runs[r].did THEN 1 ELSE 0

\* C26 (as stated): in every run that reaches persistence, the pipeline
\* queries the store for the natural key a second time after metadata
\* extraction and before the insert, and skips the insert when that second
\* query finds a record.
C26_SecondQueryBeforeInsert ==
    \A r \in Runs :
        /\ ReachedPersistence(r) => QueriesOf(r) >= 2
        /\ runs[r].pc = "insert" => QueriesOf(r) >= 2

\* C26 (amended): in every run that reaches persistence the pipeline has
\* queried the store for the natural key once, before the download; the key is
\* checked a second time by the insert itself (the unique index), and no row
\* is inserted when a record with that key exists: the refused run keeps no
\* row and the key's only row is the one of the run whose insert succeeded.
C26_RecheckedByInsert ==
    \A r \in Runs :
        /\ (ReachedPersistence(r) \/ runs[r].pc = "insert") =>
              (QueriesOf(r) = 1 /\ "found" \notin runs[r].did)
        /\ runs[r].out = "dup_conflict" =>
              /\ RowsOf(r) = {}
              /\ "insert" \notin runs[r].did
              /\ \E t \in RowsWithKey(transcripts, runs[r].req.key) :
                    t.view_secret # randomUUID(r)
        /\ "insert" \in runs[r].did =>
              /\ RowsOf(r) # {}
              /\ RowsWithKey(transcripts, runs[r].req.key) = RowsOf(r)

\* A run whose duplicate query found nothing and got no store error was
\* refused at the insert, another run having inserted the key in between.
C26_Witness ==
    \E r, q \in Runs :
        /\ r # q
        /\ runs[r].out = "dup_conflict"
        /\ runs[r].did \cap {"query", "found", "model"} = {"query", "model"}
        /\ "insert" \in runs[q].did
        /\ runs[q].req.key = runs[r].req.key

\* The ZoomAPI object as a process that has handled no run holds it.
FreshZoomAPI == [zoomAPI EXCEPT !.accessToken = None]

\* C27: runs handled by one process share no mutable in-process state: what a
\* run does and gets (here at its Zoom API step: the requests it sends and the
\* emails it obtains, for every answer of the OAuth and the participants
\* endpoints) is the same whether or not another run went before it or runs
\* beside it in that process.
C27_RunsIndependent ==
    \A r \in Runs :
        runs[r].pc = "zoom" =>
            \A tokenResp \in {"ok", "fail"},
               partResp \in {"emails", "none", "404", "429", "error"} :
                LET here == getPastMeetingParticipants(zoomAPI, tokenResp, partResp)
                    alone == getPastMeetingParticipants(FreshZoomAPI, tokenResp, partResp)
                IN /\ here.calls = alone.calls
                   /\ here.emails = alone.emails

\* The interactive request i completes a recognized delete action for id.
DeleteActionOn(i, id) ==
    /\ inter[i].pc = "delete"
    /\ inter[i].req.body.kind = "delete"
    /\ inter[i].req.body.id = id
    /\ inter'[i].pc = "answered"

\* C28: no operation modifies the fields of an existing record, and the only
\* operation that removes a record is the interactive handler's recognized
\* delete action: every step leaves each existing record as it is, or removes
\* it in a delete action for its id; steps of the pipeline, of the webhook
\* handler and of the view endpoint remove nothing.
C28_RecordsNeverUpdated ==
    [][/\ \A t \in transcripts :
             \/ t \in transcripts'
             \/ /\ RowsWithId(transcripts', t.id) = {}
                /\ \E i \in Inters : DeleteActionOn(i, t.id)
       /\ (runs' # runs \/ view' # view \/ webhook' # webhook) =>
             transcripts \subseteq transcripts']_vars

\* A second delivery of a key went through its whole run, and the view link
\* was opened, while the key's record stayed as the first run wrote it.
C28_Witness ==
    /\ \E r, q \in Runs :
          /\ r # q
          /\ runs[r].req.key = runs[q].req.key
          /\ runs[r].out = "notified"
          /\ runs[q].out \in {"duplicate", "dup_conflict"}
          /\ RowsOf(r) # {}
    /\ view.status = 200

ConfirmationsOf(i) == {m \in slackMsgs : m.kind = "deleted" /\ m.src = <<"inter", i>>}

\* C29: on a recognized delete action with a numeric record id the handler
\* looks up the record's topic, deletes the record, then posts the visible
\* confirmation; the delete is issued only if the lookup succeeded, the
\* confirmation is posted only if the delete reported no error, and after a
\* 200 {ok:true} response the record with that id is absent from the store; a
\* failure to post the confirmation does not undo the deletion or change the
\* 200 response.
C29_DeleteOrder ==
    \A i \in Inters :
        LET did == inter[i].did
            okAnswer == /\ inter[i].pc = "answered"
                        /\ inter[i].status = 200
                        /\ inter[i].body = "ok"
        IN
        /\ ("store_delete" \in did \/ inter[i].pc = "delete") => "lookup_ok" \in did
        /\ "lookup_ok" \in did => "store_read" \in did
        /\ "deleted" \in did => "store_delete" \in did
        /\ ConfirmationsOf(i) # {} => "deleted" \in did
        /\ okAnswer <=> "deleted" \in did
        /\ okAnswer => RowsWithId(transcripts, inter[i].req.body.id) = {}
        /\ (inter[i].pc = "answered" /\ "store_read" \in did /\ "lookup_ok" \notin did) =>
              /\ inter[i].status \in {404, 500}
              /\ "store_delete" \notin did

\* A record was deleted on a user's click and the confirmation could not be
\* posted: the answer is 200 and the record is gone.
C29_Witness ==
    \E i \in Inters :
        /\ inter[i].pc = "answered" /\ inter[i].status = 200
        /\ inter[i].req.body.user
        /\ "chat" \in inter[i].did
        /\ ConfirmationsOf(i) = {}
        /\ \E k \in Keys : deleteCount[k] = 1
        /\ transcripts = {}

\* Delete-action requests for the record id that were answered 200 {ok:true}.
OkDeletesOf(id) ==
    {i \in Inters : /\ inter[i].pc = "answered"
                    /\ inter[i].req.body.kind = "delete"
                    /\ inter[i].req.body.id = id
                    /\ inter[i].status = 200
                    /\ inter[i].body = "ok"}

\* C30: for every record, across concurrent or repeated validly signed
\* delete-action requests for its id, at most one request posts the visible
\* confirmation and returns {ok:true}; every other request takes the
\* not-found path and issues no delete.
C30_AtMostOneConfirmation ==
    \A id \in Ids :
        /\ Cardinality(OkDeletesOf(id)) <= 1
        /\ Cardinality({m \in slackMsgs : m.kind = "deleted" /\ m.value = id}) <= 1
        /\ \A i \in Inters :
              (/\ inter[i].pc = "answered"
               /\ inter[i].req.body.id = id
               /\ OkDeletesOf(id) \ {i} # {}) => "store_delete" \notin inter[i].did

\* Notifications sent by runs for the natural key k.
NotificationsFor(k) ==
    {m \in slackMsgs : m.kind = "summary" /\ runs[m.src[2]].req.key = k}

\* C31: for every natural key, when several deliveries for that key are
\* processed concurrently and no delete action occurs, at most one chat
\* notification is sent for that key, and the run that sent it is the run
\* whose insert succeeded: its row is the key's row.
C31_OneNotificationPerKey ==
    \A k \in Keys :
        /\ Cardinality(NotificationsFor(k)) <= 1
        /\ \A m \in NotificationsFor(k) :
              /\ "insert" \in runs[m.src[2]].did
              /\ RowsOf(m.src[2]) = RowsWithKey(transcripts, k)
              /\ \A t \in RowsOf(m.src[2]) : t.id = m.value

\* Two runs for one key both passed the duplicate query; one inserted and
\* notified, the other was refused at the insert and sent nothing.
C31_Witness ==
    \E r, q \in Runs :
        /\ r # q
        /\ runs[r].req.key = runs[q].req.key
        /\ runs[r].out = "notified" /\ MessagesOf(r) # {}
        /\ runs[q].out = "dup_conflict"
        /\ "found" \notin runs[q].did

\* How many times the piece p stands in the text.
Occurrences(text, p) == Cardinality({i \in DOMAIN text : text[i] = p})

\* The pieces with which the texts of content lines begin.
ContentTexts == {l.text[1] : l \in {x \in VttLines : x.kind = "content"}}

\* C32: cleanVTTTranscript discards the format header line and, of the
\* remaining lines, only blank lines, sequence-number lines, timestamp lines
\* and lines without a 'speaker: text' shape: the text of every other line
\* after the header stands exactly once in the output, wherever the line
\* stands (directly after the header included), nothing of a discarded line
\* stands in the output, and empty input gives empty output.
C32_OnlyHeaderDropped ==
    CleanCalled =>
        LET rest == Tail(pure.lines) IN
        /\ \A p \in ContentTexts :
              Occurrences(pure.result, p) =
                  Cardinality({i \in DOMAIN rest : /\ rest[i].kind = "content"
                                                   /\ rest[i].text[1] = p})
        /\ Occurrences(pure.result, "and so on") = 0
        /\ pure.lines = EmptyInput => pure.result = <<>>

ExtractCalled == pure.fn = "extractParticipantsFromCleanedText"

\* The speakers of the content lines, each once, in order of first appearance.
RECURSIVE DistinctSpeakers(_, _)
DistinctSpeakers(content, seen) ==
    IF content = <<>> THEN seen
    ELSE DistinctSpeakers(Tail(content),
                          IF \E i \in DOMAIN seen : seen[i] = Head(content).speaker
                          THEN seen ELSE Append(seen, Head(content).speaker))

\* C33: for every cleaned transcript produced by cleanVTTTranscript,
\* extractParticipantsFromCleanedText returns exactly the distinct speaker
\* names of its turns, each once, in order of first appearance; for empty
\* cleaned text it returns the empty list.
C33_ParticipantsAreSpeakers ==
    ExtractCalled =>
        /\ pure.result = DistinctSpeakers(ContentOf(pure.lines), <<>>)
        /\ pure.cleanedText = <<>> => pure.result = <<>>

\* The turns of a cleaned text, and the speaker a turn begins with.
TurnsOf(cleanedText) == IF cleanedText = <<>> THEN <<>> ELSE split(cleanedText, <<>>)

TurnSpeaker(turn) ==
    LET seps == {i \in DOMAIN turn : turn[i] = ": "} IN
    IF seps = {} THEN <<>>
    ELSE SubSeq(turn, 1, (CHOOSE x \in seps : \A y \in seps : x <= y) - 1)

\* C34: in every output of cleanVTTTranscript no two adjacent turns have the
\* same speaker, and a dropped line (blank, number, timestamp or unrecognized)
\* between two content lines of one speaker does not split them: the output
\* has as many turns as the content lines alone, the dropped lines left out,
\* have changes of speaker.
C34_AdjacentTurnsDiffer ==
    CleanCalled =>
        LET turns == TurnsOf(pure.result) IN
        /\ \A i \in DOMAIN turns :
              /\ TurnSpeaker(turns[i]) # <<>>
              /\ i > 1 => TurnSpeaker(turns[i]) # TurnSpeaker(turns[i - 1])
        /\ Len(turns) = Cardinality(TurnStarts(ContentOf(pure.lines)))

\* Two lines of one speaker with a timestamp line and an unrecognized line
\* between them: one turn.
C34_Witness ==
    /\ CleanCalled
    /\ Len(pure.lines) = 6
    /\ pure.lines[3].kind = "content" /\ pure.lines[6].kind = "content"
    /\ pure.lines[4].kind = "timestamp" /\ pure.lines[5].kind = "plain"
    /\ pure.lines[3].speaker = pure.lines[6].speaker
    /\ pure.lines[3].text # pure.lines[6].text
    /\ Len(TurnsOf(pure.result)) = 1

AnalysisCalled == pure.fn = "generateComprehensiveAnalysis"

\* C35: generateComprehensiveAnalysis makes no model invocation in two cases,
\* checked in this order: the transcript holds a trigger phrase (any letter
\* case), and the result is meetingType 'internal' with no external
\* participants and no clients; otherwise the summary is empty and the
\* transcript is empty or shorter than 50 characters, and the result is
\* meetingType 'unknown' with all lists empty. In every other case it makes
\* at least 1 and at most 3 model invocations, and throws the error of the
\* third if all 3 fail.
C35_AnalysisBypasses ==
    AnalysisCalled =>
        LET res == pure.result
            tx == pure.transcript
            resps == pure.resps
            failed(i) == resps[i] \in {"fail", "fail_schema"}
        IN
        IF HoldsTrigger(tx)
        THEN /\ ~res.threw /\ res.calls = 0
             /\ res.meetingType = "internal"
             /\ res.identifiedExternalParticipants = <<>>
             /\ res.clients = <<>>
        ELSE IF pure.summary = "" /\ tx.length < 50
        THEN /\ ~res.threw /\ res.calls = 0
             /\ res.meetingType = "unknown"
             /\ res.identifiedExternalParticipants = <<>>
             /\ res.projects = <<>>
             /\ res.clients = <<>>
        ELSE /\ res.calls \in 1..3
             /\ \A i \in 1..(res.calls - 1) : failed(i)
             /\ res.threw <=> (failed(1) /\ failed(2) /\ failed(3))
             /\ res.threw => (res.calls = 3 /\ res.error = resps[3])
             /\ ~res.threw => (~failed(res.calls) /\ res.meetingType = "model")

\* A transcript of 49 characters with a trigger phrase and no summary meets
\* both conditions: the first one decides, whatever the model would answer.
C35_Witness ==
    /\ AnalysisCalled
    /\ pure.summary = ""
    /\ pure.transcript.length = 49
    /\ HoldsTrigger(pure.transcript)
    /\ pure.resps = <<"fail", "fail_schema", "fail">>
    /\ pure.result.meetingType = "internal"
    /\ pure.result.calls = 0

\* The cases in which the participants cannot be obtained: credentials
\* missing, the token request failing, the participants request failing.
ZoomUnavailable(api, tokenResp, partResp) ==
    \/ ~api.configured
    \/ api.accessToken = None /\ tokenResp = "fail"
    \/ partResp \in {"404", "429", "error"}

\* The method returns whatever the two endpoints answer.
ZoomStepReturns ==
    \A r \in Runs :
        /\ runs[r].out # "zoom"
        /\ runs[r].pc = "zoom" =>
              \A tokenResp \in {"ok", "fail"},
                 partResp \in {"emails", "none", "404", "429", "error"} :
                  LET res == getPastMeetingParticipants(zoomAPI, tokenResp, partResp) IN
                  /\ ~res.threw
                  /\ ~zoomAPI.configured => res.calls = 0
                  /\ ZoomUnavailable(zoomAPI, tokenResp, partResp) =>
                        res.emails = "empty"

\* C36: getPastMeetingParticipants never throws: without credentials it
\* returns the empty list and sends no request, and when the token request
\* or the participants request fails (404, 429, another status or an
\* exception) it returns the empty list; the run goes on from the Zoom step
\* to the insert in every case, and the record it inserts carries the emails
\* the step returned (none in the cases above).
C36_ParticipantsNeverBlock ==
    /\ []ZoomStepReturns
    /\ [][\A r \in Runs :
             /\ (runs[r].pc = "zoom" /\ runs'[r] # runs[r]) =>
                   /\ runs'[r].pc = "insert"
                   /\ runs'[r].emails \in {"empty", "some"}
                   /\ ~zoomAPI.configured =>
                         (runs'[r].emails = "empty" /\ "zoom" \notin runs'[r].did)
                   /\ (zoomAPI.configured /\ zoomAPI'.accessToken = None) =>
                         runs'[r].emails = "empty"
             /\ (runs[r].pc = "insert" /\ "insert" \in runs'[r].did) =>
                   \E t \in transcripts' \ transcripts :
                       /\ t.view_secret = randomUUID(r)
                       /\ t.emails = runs[r].emails]_vars

\* The token request failed (credentials are configured, no token is held
\* after a run sent a request), and that run inserted its record, without
\* emails, and went on to notify.
C36_Witness ==
    \E r \in Runs :
        /\ zoomAPI.configured /\ zoomAPI.accessToken = None
        /\ "zoom" \in runs[r].did
        /\ runs[r].out = "notified"
        /\ \E t \in RowsOf(r) : t.emails = "empty"

\* The attempts of the call that failed.
FailedAttempts(res) == IF res.ok THEN res.attempts - 1 ELSE res.attempts

\* C37 (as stated): in downloadTranscriptWithRetry the wait that follows the
\* k-th failed attempt (k = 1, 2, 3) is 1000 * 2^(k-1) ms; a wait happens
\* after every failed attempt and only after a failed attempt, and each wait
\* is followed by a retry.
C37_WaitAfterEveryFailure ==
    (DownloadCalled /\ pure.downloadToken) =>
        /\ pure.result.waits =
              [k \in 1..FailedAttempts(pure.result) |-> 1000 * 2 ^ (k - 1)]
        /\ pure.result.attempts = Len(pure.result.waits) + 1

\* C37 (amended): the wait that follows the k-th failed attempt (k = 1, 2) is
\* 1000 * 2^(k-1) ms, i.e. 1 s, 2 s, and each wait is followed by a retry; a
\* wait happens after every failed attempt but the third, which is followed by
\* no wait and no retry, and only after a failed attempt.
C37_WaitBeforeEveryRetry ==
    (DownloadCalled /\ pure.downloadToken) =>
        LET res == pure.result
            failed == FailedAttempts(res)
        IN
        /\ res.waits = [k \in 1..(IF failed = 3 THEN 2 ELSE failed) |-> 1000 * 2 ^ (k - 1)]
        /\ res.attempts = Len(res.waits) + 1
        /\ \A k \in DOMAIN res.waits : ~AcceptableResponse(pure.resps[k])

\* Three failed attempts: waits of 1 s and 2 s, none after the third.
C37_Witness ==
    /\ DownloadCalled /\ pure.downloadToken
    /\ ~pure.result.ok
    /\ pure.result.attempts = 3
    /\ pure.result.waits = <<1000, 2000>>

\* The order of the steps of a run.
PcRank(p) ==
    CASE p = "free" -> 0
      [] p = "precheck" -> 1
      [] p = "download" -> 2
      [] p = "zoom" -> 3
      [] p = "insert" -> 4
      [] p = "notify" -> 5
      [] OTHER -> 6

\* Whatever the download URL and the model answer to a run that is about to
\* download, the attempts and invocations it makes are bounded.
BoundedCalls ==
    \A r \in Runs :
        runs[r].pc = "download" =>
            /\ \A d \in DownloadResults(runs[r].req.token) : d.attempts <= 3
            /\ \A tx \in TxKinds :
                  \A s \in SummaryResults(tx) :
                      /\ s.calls <= 3
                      /\ \A a \in AnalysisResults(s.summary, tx) : a.calls <= 3

\* C38: every handleTranscriptCompleted run terminates, provided every
\* external call eventually returns or fails; within one run there are at
\* most 3 download attempts, at most 3 summary and at most 3 metadata model
\* invocations, at most one insert and at most one chat message, and no step
\* is re-entered after a later step has begun (every step of a run takes it
\* to a later position).
C38_RunsTerminate ==
    /\ \A r \in Runs : Started(r) ~> Ended(runs[r].pc)
    /\ []BoundedCalls
    /\ [](\A r \in Runs : Cardinality(RowsOf(r)) <= 1 /\ Cardinality(MessagesOf(r)) <= 1)
    /\ [][\A r \in Runs :
             /\ runs'[r] # runs[r] => PcRank(runs'[r].pc) > PcRank(runs[r].pc)
             /\ RowsOf(r)' # RowsOf(r) => runs[r].pc = "insert"
             /\ MessagesOf(r)' # MessagesOf(r) => runs[r].pc = "notify"]_vars

\* Two runs for one key have ended, one through every step up to the
\* notification, the other at the refused insert.
C38_Witness ==
    \E r, q \in Runs :
        /\ r # q
        /\ runs[r].req.key = runs[q].req.key
        /\ runs[r].pc = "returned" /\ runs[q].pc = "returned"
        /\ {"query", "download", "model", "zoom", "insert", "notify"} \subseteq runs[r].did
        /\ {"query", "download", "model", "zoom", "insert_failed"} \subseteq runs[q].did

\* The notifications with their view links.
Notifications == {m \in slackMsgs : m.kind = "summary"}

\* The request that presents the link of m; fault: the store query fails.
LinkRequest(m, fault) == [id |-> m.link[1], secret |-> m.link[2], fault |-> fault]

\* The link of every notification carries the id returned by its run's insert
\* and the secret stored in the record with that id; the record is absent
\* only after a delete.
LinkNamesRecord ==
    \A m \in Notifications :
        /\ m.link[1] = runs[m.src[2]].rid
        /\ m.link[1] # 0
        /\ \A t \in RowsWithId(transcripts, m.link[1]) :
              /\ t.view_secret = m.link[2]
              /\ t.key = runs[m.src[2]].req.key
        /\ RowsWithId(transcripts, m.link[1]) = {} =>
              deleteCount[runs[m.src[2]].req.key] >= 1

\* C39 (as stated): the view link of a notification carries the id returned
\* by that run's insert and the secret stored in that record, so presenting
\* the link's (id, secret) pair to the view endpoint yields 200 for as long as
\* the record exists, and never once it has been deleted.
C39_LinkOpensWhileRecordExists ==
    /\ LinkNamesRecord
    /\ \A m \in Notifications, fault \in BOOLEAN :
          ViewHandler(transcripts, LinkRequest(m, fault)).status = 200
             <=> RowsWithId(transcripts, m.link[1]) # {}

\* C39 (amended): the same, with 200 for as long as the record exists and the
\* store query succeeds (500 when it fails), and never 200 once the record
\* has been deleted.
C39_LinkOpensWhileRecordExistsAndStoreAnswers ==
    /\ LinkNamesRecord
    /\ \A m \in Notifications, fault \in BOOLEAN :
          LET resp == ViewHandler(transcripts, LinkRequest(m, fault)) IN
          /\ resp.status = 200 <=> (RowsWithId(transcripts, m.link[1]) # {} /\ ~fault)
          /\ (RowsWithId(transcripts, m.link[1]) # {} /\ fault) => resp.status = 500
          /\ RowsWithId(transcripts, m.link[1]) = {} => resp.status # 200

\* The link of a notification was presented after its record had been
\* deleted, and was not answered 200.
C39_Witness ==
    \E m \in Notifications :
        /\ view.req = LinkRequest(m, FALSE)
        /\ view.status = 500
        /\ RowsWithId(transcripts, m.link[1]) = {}
        /\ deleteCount[runs[m.src[2]].req.key] = 1

====
